---- MODULE Spec2Model ----
(***************************************************************************)
(* Model of the Purelytics ingredient matching and scoring engine:         *)
(*   src/src/data/ingredientDatabase.js   reference database, alias lists  *)
(*   src/src/services/ingredientParser.js normalizer, matcher, classifier, *)
(*                                        scoring aggregator               *)
(*   src/unnamed/part_008 (aiService)     category-locked alternatives     *)
(*                                                                         *)
(* JavaScript strings are modelled as sequences of code points, so that    *)
(* toLowerCase, includes, trim and the regular-expression replaces are     *)
(* computed character by character as the code computes them.  Display-    *)
(* only fields of the records (plainEnglish, healthNotes, foundIn, ...)    *)
(* are not carried.                                                        *)
(***************************************************************************)
EXTENDS Integers, Sequences, FiniteSets, TLC

(***************************************************************************)
(* String primitives                                                       *)
(***************************************************************************)

\* the lowercase mapping of one code point: A-Z, the Latin-1 capitals, and
\* the Kelvin and Angstrom signs, whose lowercase forms are 'k' and U+00E5
\* (a capital whose lowercase form is more than one code point, U+0130, is
\* not among the characters the strings here are built from)
lowerCodePoint(c) ==
  IF c \in 65..90 \/ (c \in 192..222 /\ c # 215) THEN c + 32
  ELSE IF c = 8490 THEN 107
  ELSE IF c = 8491 THEN 229
  ELSE c

\* String.prototype.toLowerCase on code points
toLowerCase(s) == [i \in 1..Len(s) |-> lowerCodePoint(s[i])]

\* the characters matched by \s in a JavaScript regular expression, which are
\* also the characters String.prototype.trim strips
WhiteSpace ==
  {9, 10, 11, 12, 13, 32, 160, 5760, 8232, 8233, 8239, 8287, 12288, 65279}
    \cup (8192..8202)

\* String.prototype.includes: t occurs in s as a contiguous substring
includes(s, t) ==
  \E i \in 0..(Len(s) - Len(t)) : \A k \in 1..Len(t) : s[i + k] = t[k]

\* String.prototype.trim
trim(s) ==
  LET keep == {i \in 1..Len(s) : s[i] \notin WhiteSpace}
  IN  IF keep = {} THEN <<>>
      ELSE LET lo == CHOOSE i \in keep : \A j \in keep : i <= j
               hi == CHOOSE i \in keep : \A j \in keep : j <= i
           IN  SubSeq(s, lo, hi)

\* the character class [a-z0-9\s]
IsAlnumOrSpace(c) ==
  c \in 97..122 \/ c \in 48..57 \/ c \in WhiteSpace

\* .replace(/[^a-z0-9\s]/g, '')
stripNonAlnum(s) == SelectSeq(s, IsAlnumOrSpace)

\* .replace(/\s+/g, r): every maximal run of whitespace becomes r
RECURSIVE replaceSpaceRuns(_, _)
replaceSpaceRuns(s, r) ==
  IF s = <<>> THEN <<>>
  ELSE IF s[1] \in WhiteSpace
       THEN IF Len(s) > 1 /\ s[2] \in WhiteSpace
            THEN replaceSpaceRuns(Tail(s), r)
            ELSE r \o replaceSpaceRuns(Tail(s), r)
       ELSE <<s[1]>> \o replaceSpaceRuns(Tail(s), r)

\* Array.prototype.some over a list of strings
someIncluded(list, s) == \E i \in 1..Len(list) : includes(s, list[i])

Max(a, b) == IF a >= b THEN a ELSE b

\* Math.round of the quotient a / b of a non-negative a by a positive b
\* (Math.round rounds a half up)
roundDiv(a, b) == (2 * a + b) \div (2 * b)

\* preservatives: src/src/data/ingredientDatabase.js:20-384
preservatives ==
  <<
    \* 'sodium-nitrite' (line 21): name 'Sodium Nitrite', category 'Preservative'
    [ key |-> "sodium-nitrite", id |-> <<115,111,100,105,117,109,45,110,105,116,114,105,116,101>>,
      name |-> <<83,111,100,105,117,109,32,78,105,116,114,105,116,101>>,
      category |-> <<80,114,101,115,101,114,118,97,116,105,118,101>>,
      score |-> 25, concern |-> "high",
      hasHiddenNames |-> TRUE,
      hiddenNames |-> <<
        <<67,117,114,105,110,103,32,115,97,108,116>>,  \* 'Curing salt'
        <<80,114,97,103,117,101,32,80,111,119,100,101,114,32,35,49>>,  \* 'Prague Powder #1'
        <<80,105,110,107,32,99,117,114,105,110,103,32,115,97,108,116>>,  \* 'Pink curing salt'
        <<78,105,116,114,105,116,101,32,112,105,99,107,108,105,110,103,32,115,97,108,116>>,  \* 'Nitrite pickling salt'
        <<67,101,108,101,114,121,32,112,111,119,100,101,114>>,  \* 'Celery powder'
        <<67,101,108,101,114,121,32,106,117,105,99,101>>,  \* 'Celery juice'
        <<67,101,108,101,114,121,32,101,120,116,114,97,99,116>>  \* 'Celery extract'
      >>,
      kidAlert |-> TRUE, heartHealthAlert |-> TRUE, diabeticAlert |-> FALSE ],
    \* 'sodium-benzoate' (line 87): name 'Sodium Benzoate', category 'Preservative'
    [ key |-> "sodium-benzoate", id |-> <<115,111,100,105,117,109,45,98,101,110,122,111,97,116,101>>,
      name |-> <<83,111,100,105,117,109,32,66,101,110,122,111,97,116,101>>,
      category |-> <<80,114,101,115,101,114,118,97,116,105,118,101>>,
      score |-> 45, concern |-> "moderate",
      hasHiddenNames |-> TRUE,
      hiddenNames |-> <<
        <<66,101,110,122,111,97,116,101,32,111,102,32,115,111,100,97>>,  \* 'Benzoate of soda'
        <<83,111,100,105,117,109,32,115,97,108,116,32,111,102,32,98,101,110,122,111,105,99,32,97,99,105,100>>,  \* 'Sodium salt of benzoic acid'
        <<66,101,110,122,111,105,99,32,97,99,105,100,32,40,69,50,49,48,41>>,  \* 'Benzoic acid (E210)'
        <<80,111,116,97,115,115,105,117,109,32,98,101,110,122,111,97,116,101,32,40,69,50,49,50,41>>,  \* 'Potassium benzoate (E212)'
        <<67,97,108,99,105,117,109,32,98,101,110,122,111,97,116,101,32,40,69,50,49,51,41>>  \* 'Calcium benzoate (E213)'
      >>,
      kidAlert |-> TRUE, heartHealthAlert |-> FALSE, diabeticAlert |-> FALSE ],
    \* 'bha' (line 148): name 'BHA (Butylated Hydroxyanisole)', category 'Preservative/Antioxidant'
    [ key |-> "bha", id |-> <<98,104,97>>,
      name |-> <<66,72,65,32,40,66,117,116,121,108,97,116,101,100,32,72,121,100,114,111,120,121,97,110,105,115,111,108,101,41>>,
      category |-> <<80,114,101,115,101,114,118,97,116,105,118,101,47,65,110,116,105,111,120,105,100,97,110,116>>,
      score |-> 30, concern |-> "high",
      hasHiddenNames |-> TRUE,
      hiddenNames |-> <<
        <<66,117,116,121,108,97,116,101,100,32,104,121,100,114,111,120,121,97,110,105,115,111,108,101>>,  \* 'Butylated hydroxyanisole'
        <<116,101,114,116,45,98,117,116,121,108,45,52,45,104,121,100,114,111,120,121,97,110,105,115,111,108,101>>,  \* 'tert-butyl-4-hydroxyanisole'
        <<65,110,116,105,111,120,105,100,97,110,116,32,66,72,65>>,  \* 'Antioxidant BHA'
        <<69,51,50,48>>  \* 'E320'
      >>,
      kidAlert |-> TRUE, heartHealthAlert |-> FALSE, diabeticAlert |-> FALSE ],
    \* 'bht' (line 209): name 'BHT (Butylated Hydroxytoluene)', category 'Preservative/Antioxidant'
    [ key |-> "bht", id |-> <<98,104,116>>,
      name |-> <<66,72,84,32,40,66,117,116,121,108,97,116,101,100,32,72,121,100,114,111,120,121,116,111,108,117,101,110,101,41>>,
      category |-> <<80,114,101,115,101,114,118,97,116,105,118,101,47,65,110,116,105,111,120,105,100,97,110,116>>,
      score |-> 40, concern |-> "moderate",
      hasHiddenNames |-> TRUE,
      hiddenNames |-> <<
        <<66,117,116,121,108,97,116,101,100,32,104,121,100,114,111,120,121,116,111,108,117,101,110,101>>,  \* 'Butylated hydroxytoluene'
        <<50,44,54,45,100,105,45,116,101,114,116,45,98,117,116,121,108,45,52,45,109,101,116,104,121,108,112,104,101,110,111,108>>,  \* '2,6-di-tert-butyl-4-methylphenol'
        <<68,66,80,67>>,  \* 'DBPC'
        <<69,51,50,49>>  \* 'E321'
      >>,
      kidAlert |-> TRUE, heartHealthAlert |-> FALSE, diabeticAlert |-> FALSE ],
    \* 'potassium-bromate' (line 266): name 'Potassium Bromate', category 'Flour Improver'
    [ key |-> "potassium-bromate", id |-> <<112,111,116,97,115,115,105,117,109,45,98,114,111,109,97,116,101>>,
      name |-> <<80,111,116,97,115,115,105,117,109,32,66,114,111,109,97,116,101>>,
      category |-> <<70,108,111,117,114,32,73,109,112,114,111,118,101,114>>,
      score |-> 10, concern |-> "high",
      hasHiddenNames |-> TRUE,
      hiddenNames |-> <<
        <<66,114,111,109,97,116,101>>,  \* 'Bromate'
        <<66,114,111,109,97,116,101,100,32,102,108,111,117,114>>,  \* 'Bromated flour'
        <<75,66,114,79,51>>  \* 'KBrO3'
      >>,
      kidAlert |-> TRUE, heartHealthAlert |-> FALSE, diabeticAlert |-> FALSE ],
    \* 'calcium-propionate' (line 336): name 'Calcium Propionate', category 'Preservative'
    [ key |-> "calcium-propionate", id |-> <<99,97,108,99,105,117,109,45,112,114,111,112,105,111,110,97,116,101>>,
      name |-> <<67,97,108,99,105,117,109,32,80,114,111,112,105,111,110,97,116,101>>,
      category |-> <<80,114,101,115,101,114,118,97,116,105,118,101>>,
      score |-> 85, concern |-> "low",
      hasHiddenNames |-> TRUE,
      hiddenNames |-> <<
        <<67,97,108,99,105,117,109,32,112,114,111,112,97,110,111,97,116,101>>,  \* 'Calcium propanoate'
        <<69,50,56,50>>  \* 'E282'
      >>,
      kidAlert |-> FALSE, heartHealthAlert |-> FALSE, diabeticAlert |-> FALSE ]
  >>

\* artificialSweeteners: src/src/data/ingredientDatabase.js:390-580
artificialSweeteners ==
  <<
    \* 'aspartame' (line 391): name 'Aspartame', category 'Artificial Sweetener'
    [ key |-> "aspartame", id |-> <<97,115,112,97,114,116,97,109,101>>,
      name |-> <<65,115,112,97,114,116,97,109,101>>,
      category |-> <<65,114,116,105,102,105,99,105,97,108,32,83,119,101,101,116,101,110,101,114>>,
      score |-> 35, concern |-> "high",
      hasHiddenNames |-> TRUE,
      hiddenNames |-> <<
        <<78,117,116,114,97,83,119,101,101,116>>,  \* 'NutraSweet'
        <<69,113,117,97,108>>,  \* 'Equal'
        <<67,97,110,100,101,114,101,108>>,  \* 'Canderel'
        <<65,109,105,110,111,83,119,101,101,116>>,  \* 'AminoSweet'
        <<76,45,97,115,112,97,114,116,121,108,45,76,45,112,104,101,110,121,108,97,108,97,110,105,110,101,32,109,101,116,104,121,108,32,101,115,116,101,114>>,  \* 'L-aspartyl-L-phenylalanine methyl ester'
        <<69,57,53,49>>  \* 'E951'
      >>,
      kidAlert |-> TRUE, heartHealthAlert |-> FALSE, diabeticAlert |-> TRUE ],
    \* 'sucralose' (line 455): name 'Sucralose', category 'Artificial Sweetener'
    [ key |-> "sucralose", id |-> <<115,117,99,114,97,108,111,115,101>>,
      name |-> <<83,117,99,114,97,108,111,115,101>>,
      category |-> <<65,114,116,105,102,105,99,105,97,108,32,83,119,101,101,116,101,110,101,114>>,
      score |-> 40, concern |-> "moderate",
      hasHiddenNames |-> TRUE,
      hiddenNames |-> <<
        <<83,112,108,101,110,100,97>>,  \* 'Splenda'
        <<83,117,107,114,97,110,97>>,  \* 'Sukrana'
        <<83,117,99,114,97,80,108,117,115>>,  \* 'SucraPlus'
        <<67,97,110,100,121,115>>,  \* 'Candys'
        <<78,101,118,101,108,108,97>>,  \* 'Nevella'
        <<69,57,53,53>>  \* 'E955'
      >>,
      kidAlert |-> TRUE, heartHealthAlert |-> FALSE, diabeticAlert |-> TRUE ],
    \* 'high-fructose-corn-syrup' (line 517): name 'High Fructose Corn Syrup', category 'Sweetener'
    [ key |-> "high-fructose-corn-syrup", id |-> <<104,105,103,104,45,102,114,117,99,116,111,115,101,45,99,111,114,110,45,115,121,114,117,112>>,
      name |-> <<72,105,103,104,32,70,114,117,99,116,111,115,101,32,67,111,114,110,32,83,121,114,117,112>>,
      category |-> <<83,119,101,101,116,101,110,101,114>>,
      score |-> 30, concern |-> "high",
      hasHiddenNames |-> TRUE,
      hiddenNames |-> <<
        <<73,115,111,103,108,117,99,111,115,101>>,  \* 'Isoglucose'
        <<71,108,117,99,111,115,101,45,102,114,117,99,116,111,115,101,32,115,121,114,117,112>>,  \* 'Glucose-fructose syrup'
        <<70,114,117,99,116,111,115,101,45,103,108,117,99,111,115,101,32,115,121,114,117,112>>,  \* 'Fructose-glucose syrup'
        <<67,111,114,110,32,115,117,103,97,114,32,40,114,101,106,101,99,116,101,100,32,98,121,32,70,68,65,41>>,  \* 'Corn sugar (rejected by FDA)'
        <<77,97,105,122,101,32,115,121,114,117,112>>,  \* 'Maize syrup'
        <<72,70,67,83,45,52,50>>,  \* 'HFCS-42'
        <<72,70,67,83,45,53,53>>,  \* 'HFCS-55'
        <<72,70,67,83,45,57,48>>  \* 'HFCS-90'
      >>,
      kidAlert |-> TRUE, heartHealthAlert |-> TRUE, diabeticAlert |-> TRUE ]
  >>

\* artificialColors: src/src/data/ingredientDatabase.js:586-889
artificialColors ==
  <<
    \* 'red-40' (line 587): name 'Red 40 (Allura Red AC)', category 'Artificial Color'
    [ key |-> "red-40", id |-> <<114,101,100,45,52,48>>,
      name |-> <<82,101,100,32,52,48,32,40,65,108,108,117,114,97,32,82,101,100,32,65,67,41>>,
      category |-> <<65,114,116,105,102,105,99,105,97,108,32,67,111,108,111,114>>,
      score |-> 35, concern |-> "high",
      hasHiddenNames |-> TRUE,
      hiddenNames |-> <<
        <<65,108,108,117,114,97,32,82,101,100,32,65,67>>,  \* 'Allura Red AC'
        <<67,73,32,49,54,48,51,53>>,  \* 'CI 16035'
        <<82,101,100,32,52,48,32,76,97,107,101>>,  \* 'Red 40 Lake'
        <<70,68,38,67,32,82,101,100,32,78,111,46,32,52,48>>,  \* 'FD&C Red No. 40'
        <<73,78,83,32,49,50,57>>,  \* 'INS 129'
        <<69,49,50,57>>  \* 'E129'
      >>,
      kidAlert |-> TRUE, heartHealthAlert |-> FALSE, diabeticAlert |-> FALSE ],
    \* 'yellow-5' (line 649): name 'Yellow 5 (Tartrazine)', category 'Artificial Color'
    [ key |-> "yellow-5", id |-> <<121,101,108,108,111,119,45,53>>,
      name |-> <<89,101,108,108,111,119,32,53,32,40,84,97,114,116,114,97,122,105,110,101,41>>,
      category |-> <<65,114,116,105,102,105,99,105,97,108,32,67,111,108,111,114>>,
      score |-> 35, concern |-> "high",
      hasHiddenNames |-> TRUE,
      hiddenNames |-> <<
        <<84,97,114,116,114,97,122,105,110,101>>,  \* 'Tartrazine'
        <<67,73,32,49,57,49,52,48>>,  \* 'CI 19140'
        <<65,99,105,100,32,89,101,108,108,111,119,32,50,51>>,  \* 'Acid Yellow 23'
        <<70,68,38,67,32,89,101,108,108,111,119,32,78,111,46,32,53>>,  \* 'FD&C Yellow No. 5'
        <<73,78,83,32,49,48,50>>,  \* 'INS 102'
        <<69,49,48,50>>  \* 'E102'
      >>,
      kidAlert |-> TRUE, heartHealthAlert |-> FALSE, diabeticAlert |-> FALSE ],
    \* 'yellow-6' (line 710): name 'Yellow 6 (Sunset Yellow)', category 'Artificial Color'
    [ key |-> "yellow-6", id |-> <<121,101,108,108,111,119,45,54>>,
      name |-> <<89,101,108,108,111,119,32,54,32,40,83,117,110,115,101,116,32,89,101,108,108,111,119,41>>,
      category |-> <<65,114,116,105,102,105,99,105,97,108,32,67,111,108,111,114>>,
      score |-> 35, concern |-> "high",
      hasHiddenNames |-> TRUE,
      hiddenNames |-> <<
        <<83,117,110,115,101,116,32,89,101,108,108,111,119,32,70,67,70>>,  \* 'Sunset Yellow FCF'
        <<67,73,32,49,53,57,56,53>>,  \* 'CI 15985'
        <<79,114,97,110,103,101,32,89,101,108,108,111,119,32,83>>,  \* 'Orange Yellow S'
        <<70,68,38,67,32,89,101,108,108,111,119,32,78,111,46,32,54>>,  \* 'FD&C Yellow No. 6'
        <<73,78,83,32,49,49,48>>,  \* 'INS 110'
        <<69,49,49,48>>  \* 'E110'
      >>,
      kidAlert |-> TRUE, heartHealthAlert |-> FALSE, diabeticAlert |-> FALSE ],
    \* 'red-3' (line 770): name 'Red 3 (Erythrosine)', category 'Artificial Color'
    [ key |-> "red-3", id |-> <<114,101,100,45,51>>,
      name |-> <<82,101,100,32,51,32,40,69,114,121,116,104,114,111,115,105,110,101,41>>,
      category |-> <<65,114,116,105,102,105,99,105,97,108,32,67,111,108,111,114>>,
      score |-> 15, concern |-> "high",
      hasHiddenNames |-> TRUE,
      hiddenNames |-> <<
        <<69,114,121,116,104,114,111,115,105,110,101,32,66>>,  \* 'Erythrosine B'
        <<67,73,32,52,53,52,51,48>>,  \* 'CI 45430'
        <<65,99,105,100,32,82,101,100,32,53,49>>,  \* 'Acid Red 51'
        <<70,68,38,67,32,82,101,100,32,78,111,46,32,51>>,  \* 'FD&C Red No. 3'
        <<73,78,83,32,49,50,55>>,  \* 'INS 127'
        <<69,49,50,55>>  \* 'E127'
      >>,
      kidAlert |-> TRUE, heartHealthAlert |-> FALSE, diabeticAlert |-> FALSE ],
    \* 'caramel-color' (line 830): name 'Caramel Color (Class III/IV)', category 'Color'
    [ key |-> "caramel-color", id |-> <<99,97,114,97,109,101,108,45,99,111,108,111,114>>,
      name |-> <<67,97,114,97,109,101,108,32,67,111,108,111,114,32,40,67,108,97,115,115,32,73,73,73,47,73,86,41>>,
      category |-> <<67,111,108,111,114>>,
      score |-> 50, concern |-> "moderate",
      hasHiddenNames |-> TRUE,
      hiddenNames |-> <<
        <<67,97,114,97,109,101,108,32,99,111,108,111,114>>,  \* 'Caramel color'
        <<69,49,53,48,97,32,40,67,108,97,115,115,32,73,32,45,32,80,108,97,105,110,44,32,115,97,102,101,114,41>>,  \* 'E150a (Class I - Plain, safer)'
        <<69,49,53,48,98,32,40,67,108,97,115,115,32,73,73,32,45,32,67,97,117,115,116,105,99,32,115,117,108,102,105,116,101,41>>,  \* 'E150b (Class II - Caustic sulfite)'
        <<69,49,53,48,99,32,40,67,108,97,115,115,32,73,73,73,32,45,32,65,109,109,111,110,105,97,44,32,99,111,110,116,97,105,110,115,32,52,45,77,69,73,41>>,  \* 'E150c (Class III - Ammonia, contains 4-MEI)'
        <<69,49,53,48,100,32,40,67,108,97,115,115,32,73,86,32,45,32,83,117,108,102,105,116,101,32,97,109,109,111,110,105,97,44,32,99,111,110,116,97,105,110,115,32,52,45,77,69,73,41>>  \* 'E150d (Class IV - Sulfite ammonia, contains 4-MEI)'
      >>,
      kidAlert |-> TRUE, heartHealthAlert |-> FALSE, diabeticAlert |-> FALSE ]
  >>

\* emulsifiersThickeners: src/src/data/ingredientDatabase.js:895-1065
emulsifiersThickeners ==
  <<
    \* 'carrageenan' (line 896): name 'Carrageenan', category 'Thickener/Stabilizer'
    [ key |-> "carrageenan", id |-> <<99,97,114,114,97,103,101,101,110,97,110>>,
      name |-> <<67,97,114,114,97,103,101,101,110,97,110>>,
      category |-> <<84,104,105,99,107,101,110,101,114,47,83,116,97,98,105,108,105,122,101,114>>,
      score |-> 55, concern |-> "moderate",
      hasHiddenNames |-> TRUE,
      hiddenNames |-> <<
        <<73,114,105,115,104,32,109,111,115,115,32,101,120,116,114,97,99,116>>,  \* 'Irish moss extract'
        <<67,104,111,110,100,114,117,115,32,99,114,105,115,112,117,115,32,101,120,116,114,97,99,116>>,  \* 'Chondrus crispus extract'
        <<69,52,48,55,97,32,40,112,114,111,99,101,115,115,101,100,32,69,117,99,104,101,117,109,97,32,115,101,97,119,101,101,100,41>>,  \* 'E407a (processed Eucheuma seaweed)'
        <<80,69,83>>,  \* 'PES'
        <<69,52,48,55>>  \* 'E407'
      >>,
      kidAlert |-> TRUE, heartHealthAlert |-> FALSE, diabeticAlert |-> FALSE ],
    \* 'xanthan-gum' (line 955): name 'Xanthan Gum', category 'Thickener/Stabilizer'
    [ key |-> "xanthan-gum", id |-> <<120,97,110,116,104,97,110,45,103,117,109>>,
      name |-> <<88,97,110,116,104,97,110,32,71,117,109>>,
      category |-> <<84,104,105,99,107,101,110,101,114,47,83,116,97,98,105,108,105,122,101,114>>,
      score |-> 90, concern |-> "low",
      hasHiddenNames |-> TRUE,
      hiddenNames |-> <<
        <<67,111,114,110,32,115,117,103,97,114,32,103,117,109>>,  \* 'Corn sugar gum'
        <<80,111,108,121,115,97,99,99,104,97,114,105,100,101,32,103,117,109>>,  \* 'Polysaccharide gum'
        <<69,52,49,53>>  \* 'E415'
      >>,
      kidAlert |-> FALSE, heartHealthAlert |-> FALSE, diabeticAlert |-> FALSE ],
    \* 'mono-diglycerides' (line 1006): name 'Mono- and Diglycerides', category 'Emulsifier'
    [ key |-> "mono-diglycerides", id |-> <<109,111,110,111,45,100,105,103,108,121,99,101,114,105,100,101,115>>,
      name |-> <<77,111,110,111,45,32,97,110,100,32,68,105,103,108,121,99,101,114,105,100,101,115>>,
      category |-> <<69,109,117,108,115,105,102,105,101,114>>,
      score |-> 40, concern |-> "moderate",
      hasHiddenNames |-> TRUE,
      hiddenNames |-> <<
        <<71,108,121,99,101,114,121,108,32,109,111,110,111,115,116,101,97,114,97,116,101,32,40,71,77,83,41>>,  \* 'Glyceryl monostearate (GMS)'
        <<71,108,121,99,101,114,121,108,32,109,111,110,111,112,97,108,109,105,116,97,116,101>>,  \* 'Glyceryl monopalmitate'
        <<68,105,115,116,105,108,108,101,100,32,109,111,110,111,103,108,121,99,101,114,105,100,101,115>>,  \* 'Distilled monoglycerides'
        <<65,99,101,116,121,108,97,116,101,100,32,109,111,110,111,103,108,121,99,101,114,105,100,101,115>>,  \* 'Acetylated monoglycerides'
        <<68,65,84,69,77,32,40,69,52,55,50,101,41>>,  \* 'DATEM (E472e)'
        <<69,52,55,49>>  \* 'E471'
      >>,
      kidAlert |-> FALSE, heartHealthAlert |-> TRUE, diabeticAlert |-> FALSE ]
  >>

\* otherAdditives: src/src/data/ingredientDatabase.js:1071-1249
otherAdditives ==
  <<
    \* 'msg' (line 1072): name 'MSG (Monosodium Glutamate)', category 'Flavor Enhancer'
    [ key |-> "msg", id |-> <<109,115,103>>,
      name |-> <<77,83,71,32,40,77,111,110,111,115,111,100,105,117,109,32,71,108,117,116,97,109,97,116,101,41>>,
      category |-> <<70,108,97,118,111,114,32,69,110,104,97,110,99,101,114>>,
      score |-> 70, concern |-> "low",
      hasHiddenNames |-> TRUE,
      hiddenNames |-> <<
        <<71,108,117,116,97,109,105,99,32,97,99,105,100,32,40,69,54,50,48,41>>,  \* 'Glutamic acid (E620)'
        <<77,111,110,111,112,111,116,97,115,115,105,117,109,32,103,108,117,116,97,109,97,116,101,32,40,69,54,50,50,41>>,  \* 'Monopotassium glutamate (E622)'
        <<89,101,97,115,116,32,101,120,116,114,97,99,116>>,  \* 'Yeast extract'
        <<65,117,116,111,108,121,122,101,100,32,121,101,97,115,116>>,  \* 'Autolyzed yeast'
        <<72,121,100,114,111,108,121,122,101,100,32,112,114,111,116,101,105,110>>,  \* 'Hydrolyzed protein'
        <<78,97,116,117,114,97,108,32,102,108,97,118,111,114,115,32,40,109,97,121,32,99,111,110,116,97,105,110,41>>  \* 'Natural flavors (may contain)'
      >>,
      kidAlert |-> FALSE, heartHealthAlert |-> FALSE, diabeticAlert |-> FALSE ],
    \* 'maltodextrin' (line 1130): name 'Maltodextrin', category 'Filler/Thickener'
    [ key |-> "maltodextrin", id |-> <<109,97,108,116,111,100,101,120,116,114,105,110>>,
      name |-> <<77,97,108,116,111,100,101,120,116,114,105,110>>,
      category |-> <<70,105,108,108,101,114,47,84,104,105,99,107,101,110,101,114>>,
      score |-> 50, concern |-> "moderate",
      hasHiddenNames |-> TRUE,
      hiddenNames |-> <<
        <<77,111,100,105,102,105,101,100,32,99,111,114,110,115,116,97,114,99,104>>,  \* 'Modified cornstarch'
        <<77,111,100,105,102,105,101,100,32,102,111,111,100,32,115,116,97,114,99,104>>,  \* 'Modified food starch'
        <<71,108,117,99,111,115,101,32,112,111,108,121,109,101,114>>,  \* 'Glucose polymer'
        <<68,101,120,116,114,105,110>>,  \* 'Dextrin'
        <<67,111,114,110,32,115,116,97,114,99,104,32,115,111,108,105,100,115>>  \* 'Corn starch solids'
      >>,
      kidAlert |-> FALSE, heartHealthAlert |-> FALSE, diabeticAlert |-> TRUE ],
    \* 'partially-hydrogenated-oils' (line 1187): name 'Partially Hydrogenated Oils (PHOs)', category 'Fat/Oil'
    [ key |-> "partially-hydrogenated-oils", id |-> <<112,97,114,116,105,97,108,108,121,45,104,121,100,114,111,103,101,110,97,116,101,100,45,111,105,108,115>>,
      name |-> <<80,97,114,116,105,97,108,108,121,32,72,121,100,114,111,103,101,110,97,116,101,100,32,79,105,108,115,32,40,80,72,79,115,41>>,
      category |-> <<70,97,116,47,79,105,108>>,
      score |-> 5, concern |-> "high",
      hasHiddenNames |-> TRUE,
      hiddenNames |-> <<
        <<80,97,114,116,105,97,108,108,121,32,104,121,100,114,111,103,101,110,97,116,101,100,32,118,101,103,101,116,97,98,108,101,32,111,105,108>>,  \* 'Partially hydrogenated vegetable oil'
        <<80,97,114,116,105,97,108,108,121,32,104,121,100,114,111,103,101,110,97,116,101,100,32,115,111,121,98,101,97,110,32,111,105,108>>,  \* 'Partially hydrogenated soybean oil'
        <<80,97,114,116,105,97,108,108,121,32,104,121,100,114,111,103,101,110,97,116,101,100,32,99,111,116,116,111,110,115,101,101,100,32,111,105,108>>,  \* 'Partially hydrogenated cottonseed oil'
        <<80,97,114,116,105,97,108,108,121,32,104,121,100,114,111,103,101,110,97,116,101,100,32,99,97,110,111,108,97,32,111,105,108>>,  \* 'Partially hydrogenated canola oil'
        <<83,104,111,114,116,101,110,105,110,103,32,40,119,104,101,110,32,109,97,100,101,32,102,114,111,109,32,80,72,79,115,41>>,  \* 'Shortening (when made from PHOs)'
        <<72,97,114,100,32,109,97,114,103,97,114,105,110,101>>  \* 'Hard margarine'
      >>,
      kidAlert |-> TRUE, heartHealthAlert |-> TRUE, diabeticAlert |-> TRUE ]
  >>

\* safeIngredients: src/src/data/ingredientDatabase.js:1255-1382
safeIngredients ==
  <<
    \* 'citric-acid' (line 1256): name 'Citric Acid', category 'Acidulant/Preservative'
    [ key |-> "citric-acid", id |-> <<99,105,116,114,105,99,45,97,99,105,100>>,
      name |-> <<67,105,116,114,105,99,32,65,99,105,100>>,
      category |-> <<65,99,105,100,117,108,97,110,116,47,80,114,101,115,101,114,118,97,116,105,118,101>>,
      score |-> 90, concern |-> "low",
      hasHiddenNames |-> FALSE,
      hiddenNames |-> <<>>,
      kidAlert |-> FALSE, heartHealthAlert |-> FALSE, diabeticAlert |-> FALSE ],
    \* 'ascorbic-acid' (line 1282): name 'Ascorbic Acid (Vitamin C)', category 'Antioxidant/Vitamin'
    [ key |-> "ascorbic-acid", id |-> <<97,115,99,111,114,98,105,99,45,97,99,105,100>>,
      name |-> <<65,115,99,111,114,98,105,99,32,65,99,105,100,32,40,86,105,116,97,109,105,110,32,67,41>>,
      category |-> <<65,110,116,105,111,120,105,100,97,110,116,47,86,105,116,97,109,105,110>>,
      score |-> 95, concern |-> "low",
      hasHiddenNames |-> FALSE,
      hiddenNames |-> <<>>,
      kidAlert |-> FALSE, heartHealthAlert |-> FALSE, diabeticAlert |-> FALSE ],
    \* 'tocopherols' (line 1307): name 'Tocopherols (Vitamin E)', category 'Antioxidant/Vitamin'
    [ key |-> "tocopherols", id |-> <<116,111,99,111,112,104,101,114,111,108,115>>,
      name |-> <<84,111,99,111,112,104,101,114,111,108,115,32,40,86,105,116,97,109,105,110,32,69,41>>,
      category |-> <<65,110,116,105,111,120,105,100,97,110,116,47,86,105,116,97,109,105,110>>,
      score |-> 92, concern |-> "low",
      hasHiddenNames |-> FALSE,
      hiddenNames |-> <<>>,
      kidAlert |-> FALSE, heartHealthAlert |-> FALSE, diabeticAlert |-> FALSE ],
    \* 'stevia' (line 1332): name 'Stevia (Steviol Glycosides)', category 'Natural Sweetener'
    [ key |-> "stevia", id |-> <<115,116,101,118,105,97>>,
      name |-> <<83,116,101,118,105,97,32,40,83,116,101,118,105,111,108,32,71,108,121,99,111,115,105,100,101,115,41>>,
      category |-> <<78,97,116,117,114,97,108,32,83,119,101,101,116,101,110,101,114>>,
      score |-> 80, concern |-> "low",
      hasHiddenNames |-> FALSE,
      hiddenNames |-> <<>>,
      kidAlert |-> FALSE, heartHealthAlert |-> FALSE, diabeticAlert |-> FALSE ],
    \* 'pectin' (line 1358): name 'Pectin', category 'Gelling Agent'
    [ key |-> "pectin", id |-> <<112,101,99,116,105,110>>,
      name |-> <<80,101,99,116,105,110>>,
      category |-> <<71,101,108,108,105,110,103,32,65,103,101,110,116>>,
      score |-> 95, concern |-> "low",
      hasHiddenNames |-> FALSE,
      hiddenNames |-> <<>>,
      kidAlert |-> FALSE, heartHealthAlert |-> FALSE, diabeticAlert |-> FALSE ]
  >>

\* hiddenSugarNames: src/src/data/ingredientDatabase.js:1388-1402
hiddenSugarNames ==
  <<
    <<115,117,99,114,111,115,101>>,  \* 'sucrose'
    <<103,108,117,99,111,115,101>>,  \* 'glucose'
    <<102,114,117,99,116,111,115,101>>,  \* 'fructose'
    <<100,101,120,116,114,111,115,101>>,  \* 'dextrose'
    <<109,97,108,116,111,115,101>>,  \* 'maltose'
    <<108,97,99,116,111,115,101>>,  \* 'lactose'
    <<103,97,108,97,99,116,111,115,101>>,  \* 'galactose'
    <<116,114,101,104,97,108,111,115,101>>,  \* 'trehalose'
    <<104,105,103,104,32,102,114,117,99,116,111,115,101,32,99,111,114,110,32,115,121,114,117,112>>,  \* 'high fructose corn syrup'
    <<99,111,114,110,32,115,121,114,117,112>>,  \* 'corn syrup'
    <<99,111,114,110,32,115,121,114,117,112,32,115,111,108,105,100,115>>,  \* 'corn syrup solids'
    <<109,97,108,116,32,115,121,114,117,112>>,  \* 'malt syrup'
    <<109,97,112,108,101,32,115,121,114,117,112>>,  \* 'maple syrup'
    <<114,105,99,101,32,115,121,114,117,112>>,  \* 'rice syrup'
    <<98,114,111,119,110,32,114,105,99,101,32,115,121,114,117,112>>,  \* 'brown rice syrup'
    <<103,111,108,100,101,110,32,115,121,114,117,112>>,  \* 'golden syrup'
    <<97,103,97,118,101,32,115,121,114,117,112>>,  \* 'agave syrup'
    <<97,103,97,118,101,32,110,101,99,116,97,114>>,  \* 'agave nectar'
    <<99,97,114,111,98,32,115,121,114,117,112>>,  \* 'carob syrup'
    <<98,117,116,116,101,114,101,100,32,115,121,114,117,112>>,  \* 'buttered syrup'
    <<115,111,114,103,104,117,109,32,115,121,114,117,112>>,  \* 'sorghum syrup'
    <<114,101,102,105,110,101,114,39,115,32,115,121,114,117,112>>,  \* 'refiner's syrup'
    <<116,97,112,105,111,99,97,32,115,121,114,117,112>>,  \* 'tapioca syrup'
    <<111,97,116,32,115,121,114,117,112>>,  \* 'oat syrup'
    <<115,116,97,114,99,104,32,115,121,114,117,112>>,  \* 'starch syrup'
    <<98,114,111,119,110,32,115,117,103,97,114>>,  \* 'brown sugar'
    <<99,97,110,101,32,115,117,103,97,114>>,  \* 'cane sugar'
    <<114,97,119,32,115,117,103,97,114>>,  \* 'raw sugar'
    <<98,101,101,116,32,115,117,103,97,114>>,  \* 'beet sugar'
    <<99,111,99,111,110,117,116,32,115,117,103,97,114>>,  \* 'coconut sugar'
    <<99,111,99,111,110,117,116,32,112,97,108,109,32,115,117,103,97,114>>,  \* 'coconut palm sugar'
    <<100,97,116,101,32,115,117,103,97,114>>,  \* 'date sugar'
    <<103,114,97,112,101,32,115,117,103,97,114>>,  \* 'grape sugar'
    <<103,111,108,100,101,110,32,115,117,103,97,114>>,  \* 'golden sugar'
    <<121,101,108,108,111,119,32,115,117,103,97,114>>,  \* 'yellow sugar'
    <<99,97,115,116,111,114,32,115,117,103,97,114>>,  \* 'castor sugar'
    <<99,111,110,102,101,99,116,105,111,110,101,114,39,115,32,115,117,103,97,114>>,  \* 'confectioner's sugar'
    <<112,111,119,100,101,114,101,100,32,115,117,103,97,114>>,  \* 'powdered sugar'
    <<105,99,105,110,103,32,115,117,103,97,114>>,  \* 'icing sugar'
    <<116,117,114,98,105,110,97,100,111,32,115,117,103,97,114>>,  \* 'turbinado sugar'
    <<100,101,109,101,114,97,114,97,32,115,117,103,97,114>>,  \* 'demerara sugar'
    <<109,117,115,99,111,118,97,100,111,32,115,117,103,97,114>>,  \* 'muscovado sugar'
    <<112,97,110,101,108,97,32,115,117,103,97,114>>,  \* 'panela sugar'
    <<115,117,99,97,110,97,116>>,  \* 'sucanat'
    <<103,114,97,110,117,108,97,116,101,100,32,115,117,103,97,114>>,  \* 'granulated sugar'
    <<116,97,98,108,101,32,115,117,103,97,114>>,  \* 'table sugar'
    <<102,108,111,114,105,100,97,32,99,114,121,115,116,97,108,115>>,  \* 'florida crystals'
    <<99,97,110,101,32,106,117,105,99,101,32,99,114,121,115,116,97,108,115>>,  \* 'cane juice crystals'
    <<111,114,103,97,110,105,99,32,114,97,119,32,115,117,103,97,114>>,  \* 'organic raw sugar'
    <<102,114,117,105,116,32,106,117,105,99,101>>,  \* 'fruit juice'
    <<102,114,117,105,116,32,106,117,105,99,101,32,99,111,110,99,101,110,116,114,97,116,101>>,  \* 'fruit juice concentrate'
    <<101,118,97,112,111,114,97,116,101,100,32,99,97,110,101,32,106,117,105,99,101>>,  \* 'evaporated cane juice'
    <<99,111,110,99,101,110,116,114,97,116,101,100,32,102,114,117,105,116,32,106,117,105,99,101>>,  \* 'concentrated fruit juice'
    <<98,97,114,108,101,121,32,109,97,108,116>>,  \* 'barley malt'
    <<98,97,114,108,101,121,32,109,97,108,116,32,101,120,116,114,97,99,116>>,  \* 'barley malt extract'
    <<109,97,108,116,32,101,120,116,114,97,99,116>>,  \* 'malt extract'
    <<109,97,108,116,111,100,101,120,116,114,105,110>>,  \* 'maltodextrin'
    <<100,105,97,115,116,97,116,105,99,32,109,97,108,116>>,  \* 'diastatic malt'
    <<101,116,104,121,108,32,109,97,108,116,111,108>>,  \* 'ethyl maltol'
    <<109,97,108,116,101,100,32,98,97,114,108,101,121>>,  \* 'malted barley'
    <<104,111,110,101,121>>,  \* 'honey'
    <<109,111,108,97,115,115,101,115>>,  \* 'molasses'
    <<98,108,97,99,107,115,116,114,97,112,32,109,111,108,97,115,115,101,115>>,  \* 'blackstrap molasses'
    <<116,114,101,97,99,108,101>>,  \* 'treacle'
    <<105,110,118,101,114,116,32,115,117,103,97,114>>,  \* 'invert sugar'
    <<99,114,121,115,116,97,108,108,105,110,101,32,102,114,117,99,116,111,115,101>>,  \* 'crystalline fructose'
    <<100,101,120,116,114,105,110>>,  \* 'dextrin'
    <<99,97,114,97,109,101,108>>,  \* 'caramel'
    <<112,97,110,111,99,104,97>>,  \* 'panocha'
    <<103,108,117,99,111,115,101,32,115,121,114,117,112,32,115,111,108,105,100,115>>,  \* 'glucose syrup solids'
    <<109,97,110,110,111,115,101>>,  \* 'mannose'
    <<115,119,101,101,116,32,115,111,114,103,104,117,109>>  \* 'sweet sorghum'
  >>

\* hiddenMSGNames.alwaysContainsMSG: src/src/data/ingredientDatabase.js:1405-1415
alwaysContainsMSG ==
  <<
    <<109,111,110,111,115,111,100,105,117,109,32,103,108,117,116,97,109,97,116,101>>,  \* 'monosodium glutamate'
    <<103,108,117,116,97,109,105,99,32,97,99,105,100>>,  \* 'glutamic acid'
    <<103,108,117,116,97,109,97,116,101>>,  \* 'glutamate'
    <<109,111,110,111,112,111,116,97,115,115,105,117,109,32,103,108,117,116,97,109,97,116,101>>,  \* 'monopotassium glutamate'
    <<99,97,108,99,105,117,109,32,103,108,117,116,97,109,97,116,101>>,  \* 'calcium glutamate'
    <<109,111,110,111,97,109,109,111,110,105,117,109,32,103,108,117,116,97,109,97,116,101>>,  \* 'monoammonium glutamate'
    <<109,97,103,110,101,115,105,117,109,32,103,108,117,116,97,109,97,116,101>>,  \* 'magnesium glutamate'
    <<110,97,116,114,105,117,109,32,103,108,117,116,97,109,97,116,101>>,  \* 'natrium glutamate'
    <<121,101,97,115,116,32,101,120,116,114,97,99,116>>,  \* 'yeast extract'
    <<116,111,114,117,108,97,32,121,101,97,115,116>>,  \* 'torula yeast'
    <<97,117,116,111,108,121,122,101,100,32,121,101,97,115,116>>,  \* 'autolyzed yeast'
    <<98,114,101,119,101,114,39,115,32,121,101,97,115,116>>,  \* 'brewer's yeast'
    <<110,117,116,114,105,116,105,111,110,97,108,32,121,101,97,115,116>>,  \* 'nutritional yeast'
    <<121,101,97,115,116,32,102,111,111,100>>,  \* 'yeast food'
    <<121,101,97,115,116,32,110,117,116,114,105,101,110,116>>,  \* 'yeast nutrient'
    <<104,121,100,114,111,108,121,122,101,100,32,112,114,111,116,101,105,110>>,  \* 'hydrolyzed protein'
    <<104,121,100,114,111,108,121,122,101,100,32,115,111,121,32,112,114,111,116,101,105,110>>,  \* 'hydrolyzed soy protein'
    <<104,121,100,114,111,108,121,122,101,100,32,119,104,101,97,116,32,112,114,111,116,101,105,110>>,  \* 'hydrolyzed wheat protein'
    <<104,121,100,114,111,108,121,122,101,100,32,112,101,97,32,112,114,111,116,101,105,110>>,  \* 'hydrolyzed pea protein'
    <<104,121,100,114,111,108,121,122,101,100,32,119,104,101,121,32,112,114,111,116,101,105,110>>,  \* 'hydrolyzed whey protein'
    <<104,121,100,114,111,108,121,122,101,100,32,99,111,114,110,32,112,114,111,116,101,105,110>>,  \* 'hydrolyzed corn protein'
    <<104,121,100,114,111,108,121,122,101,100,32,118,101,103,101,116,97,98,108,101,32,112,114,111,116,101,105,110>>,  \* 'hydrolyzed vegetable protein'
    <<99,97,108,99,105,117,109,32,99,97,115,101,105,110,97,116,101>>,  \* 'calcium caseinate'
    <<115,111,100,105,117,109,32,99,97,115,101,105,110,97,116,101>>,  \* 'sodium caseinate'
    <<103,101,108,97,116,105,110>>,  \* 'gelatin'
    <<116,101,120,116,117,114,101,100,32,112,114,111,116,101,105,110>>,  \* 'textured protein'
    <<115,111,121,32,112,114,111,116,101,105,110>>,  \* 'soy protein'
    <<115,111,121,32,112,114,111,116,101,105,110,32,99,111,110,99,101,110,116,114,97,116,101>>,  \* 'soy protein concentrate'
    <<115,111,121,32,112,114,111,116,101,105,110,32,105,115,111,108,97,116,101>>,  \* 'soy protein isolate'
    <<119,104,101,121,32,112,114,111,116,101,105,110>>,  \* 'whey protein'
    <<119,104,101,121,32,112,114,111,116,101,105,110,32,99,111,110,99,101,110,116,114,97,116,101>>,  \* 'whey protein concentrate'
    <<119,104,101,121,32,112,114,111,116,101,105,110,32,105,115,111,108,97,116,101>>,  \* 'whey protein isolate'
    <<115,111,121,32,115,97,117,99,101>>,  \* 'soy sauce'
    <<115,111,121,32,115,97,117,99,101,32,101,120,116,114,97,99,116>>,  \* 'soy sauce extract'
    <<112,114,111,116,101,97,115,101>>,  \* 'protease'
    <<118,101,116,115,105,110>>,  \* 'vetsin'
    <<97,106,105,110,111,109,111,116,111>>  \* 'ajinomoto'
  >>

\* hiddenMSGNames.oftenContainsMSG: src/src/data/ingredientDatabase.js:1416-1420
oftenContainsMSG ==
  <<
    <<99,97,114,114,97,103,101,101,110,97,110>>,  \* 'carrageenan'
    <<98,111,117,105,108,108,111,110>>,  \* 'bouillon'
    <<98,114,111,116,104>>,  \* 'broth'
    <<115,116,111,99,107>>,  \* 'stock'
    <<102,108,97,118,111,114,115>>,  \* 'flavors'
    <<102,108,97,118,111,114,105,110,103>>,  \* 'flavoring'
    <<110,97,116,117,114,97,108,32,102,108,97,118,111,114>>,  \* 'natural flavor'
    <<110,97,116,117,114,97,108,32,102,108,97,118,111,114,105,110,103>>,  \* 'natural flavoring'
    <<109,97,108,116,111,100,101,120,116,114,105,110>>,  \* 'maltodextrin'
    <<111,108,105,103,111,100,101,120,116,114,105,110>>,  \* 'oligodextrin'
    <<99,105,116,114,105,99,32,97,99,105,100>>,  \* 'citric acid'
    <<98,97,114,108,101,121,32,109,97,108,116>>,  \* 'barley malt'
    <<109,97,108,116,101,100,32,98,97,114,108,101,121>>,  \* 'malted barley'
    <<112,101,99,116,105,110>>,  \* 'pectin'
    <<109,97,108,116,32,101,120,116,114,97,99,116>>,  \* 'malt extract'
    <<115,101,97,115,111,110,105,110,103,115>>  \* 'seasonings'
  >>

\* 'sweetener' (src/src/services/ingredientParser.js:151)
str_sweetener == <<115,119,101,101,116,101,110,101,114>>
\* 'preservative' (src/src/services/ingredientParser.js:155)
str_preservative == <<112,114,101,115,101,114,118,97,116,105,118,101>>
\* 'artificial' (src/src/services/ingredientParser.js:159)
str_artificial == <<97,114,116,105,102,105,99,105,97,108>>
\* 'color' (src/src/services/ingredientParser.js:159)
str_color == <<99,111,108,111,114>>
\* 'Kids' (src/src/services/ingredientParser.js:166)
str_Kids == <<75,105,100,115>>
\* 'Heart' (src/src/services/ingredientParser.js:175)
str_Heart == <<72,101,97,114,116>>
\* 'Diabetic' (src/src/services/ingredientParser.js:184)
str_Diabetic == <<68,105,97,98,101,116,105,99>>
\* '👧 Kids' (src/src/services/ingredientParser.js:169)
profile_Kids == <<128103,32,75,105,100,115>>
\* '❤️ Heart Health' (src/src/services/ingredientParser.js:178)
profile_HeartHealth == <<10084,65039,32,72,101,97,114,116,32,72,101,97,108,116,104>>
\* '🩺 Diabetic' (src/src/services/ingredientParser.js:187)
profile_Diabetic == <<129658,32,68,105,97,98,101,116,105,99>>
\* 'Contains ' (src/src/services/ingredientParser.js:170)
msg_Contains == <<67,111,110,116,97,105,110,115,32>>
\* ' - caution advised for children' (src/src/services/ingredientParser.js:170)
msg_kid == <<32,45,32,99,97,117,116,105,111,110,32,97,100,118,105,115,101,100,32,102,111,114,32,99,104,105,108,100,114,101,110>>
\* ' - monitor for heart health' (src/src/services/ingredientParser.js:179)
msg_heart == <<32,45,32,109,111,110,105,116,111,114,32,102,111,114,32,104,101,97,114,116,32,104,101,97,108,116,104>>
\* ' - watch glycemic impact' (src/src/services/ingredientParser.js:188)
msg_diabetic == <<32,45,32,119,97,116,99,104,32,103,108,121,99,101,109,105,99,32,105,109,112,97,99,116>>
\* 'Hidden Sugar' (src/src/services/ingredientParser.js:76)
cat_HiddenSugar == <<72,105,100,100,101,110,32,83,117,103,97,114>>
\* 'Flavor Enhancer' (src/src/services/ingredientParser.js:87)
cat_FlavorEnhancer == <<70,108,97,118,111,114,32,69,110,104,97,110,99,101,114>>
\* 'Processed Additive' (src/src/services/ingredientParser.js:95)
cat_ProcessedAdditive == <<80,114,111,99,101,115,115,101,100,32,65,100,100,105,116,105,118,101>>
\* 'Additive' (src/src/services/ingredientParser.js:101)
cat_Additive == <<65,100,100,105,116,105,118,101>>
\* 'Natural Ingredient' (src/src/services/ingredientParser.js:107)
cat_NaturalIngredient == <<78,97,116,117,114,97,108,32,73,110,103,114,101,100,105,101,110,116>>
\* 'Ingredient' (src/src/services/ingredientParser.js:111)
cat_Ingredient == <<73,110,103,114,101,100,105,101,110,116>>
\* redFlags (src/src/services/ingredientParser.js:93): ['artificial', 'synthetic', 'hydrogenated', 'modified']
redFlags == << <<97,114,116,105,102,105,99,105,97,108>>, <<115,121,110,116,104,101,116,105,99>>, <<104,121,100,114,111,103,101,110,97,116,101,100>>, <<109,111,100,105,102,105,101,100>> >>
\* yellowFlags (src/src/services/ingredientParser.js:99): ['flavor', 'color', 'dye', 'preservative']
yellowFlags == << <<102,108,97,118,111,114>>, <<99,111,108,111,114>>, <<100,121,101>>, <<112,114,101,115,101,114,118,97,116,105,118,101>> >>
\* greenFlags (src/src/services/ingredientParser.js:105): ['organic', 'natural', 'vitamin', 'mineral', 'water', 'salt', 'spice']
greenFlags == << <<111,114,103,97,110,105,99>>, <<110,97,116,117,114,97,108>>, <<118,105,116,97,109,105,110>>, <<109,105,110,101,114,97,108>>, <<119,97,116,101,114>>, <<115,97,108,116>>, <<115,112,105,99,101>> >>
(***************************************************************************)
(* Reference database utilities (ingredientDatabase.js)                    *)
(***************************************************************************)

\* the combined table; Object.entries iterates it in insertion order
ingredientDatabase ==
  preservatives \o artificialSweeteners \o artificialColors
    \o emulsifiersThickeners \o otherAdditives \o safeIngredients

\* variant: the search looks at the names only
searchHitNameOnly(ingredient, normalizedQuery) ==
  IF includes(toLowerCase(ingredient.name), normalizedQuery)
  THEN "name" ELSE "none"

\* the body of the loop of searchIngredients for one record: "name" when its
\* lowercased name contains the query, else "hidden" when one of its
\* lowercased aliases does, else "none"
searchHit(ingredient, normalizedQuery) ==
  IF includes(toLowerCase(ingredient.name), normalizedQuery) THEN "name"
  ELSE IF ingredient.hasHiddenNames
          /\ \E h \in 1..Len(ingredient.hiddenNames) :
               includes(toLowerCase(ingredient.hiddenNames[h]), normalizedQuery)
       THEN "hidden"
       ELSE "none"

\* results.push({...ingredient, matchType}) when the record is a hit
pushHit(results, i, matchType) ==
  IF matchType = "none" THEN results
  ELSE Append(results, [rec |-> i, matchType |-> matchType])

\* the loop of searchIngredients over the entries from position i on
RECURSIVE searchFrom(_, _, _, _)
searchFrom(table, i, normalizedQuery, results) ==
  IF i > Len(table) THEN results
  ELSE searchFrom(table, i + 1, normalizedQuery,
                  pushHit(results, i, searchHit(table[i], normalizedQuery)))

\* searchIngredients: the hits in table order, each with the position of its
\* record in the combined table
searchIngredients(query) ==
  searchFrom(ingredientDatabase, 1, trim(toLowerCase(query)), <<>>)

\* list.some(x => s.includes(x.toLowerCase()))
someIncludedLower(list, s) ==
  \E i \in 1..Len(list) : includes(s, toLowerCase(list[i]))

isHiddenSugar(name) == someIncludedLower(hiddenSugarNames, toLowerCase(name))

\* the second test of checkForMSG, reached when the first failed
checkOftenMSG(normalizedName) ==
  IF someIncludedLower(oftenContainsMSG, normalizedName)
  THEN [containsMSG |-> TRUE, certainty |-> "moderate"]
  ELSE [containsMSG |-> FALSE, certainty |-> "null"]

checkForMSGLower(normalizedName) ==
  IF someIncludedLower(alwaysContainsMSG, normalizedName)
  THEN [containsMSG |-> TRUE, certainty |-> "high"]
  ELSE checkOftenMSG(normalizedName)

checkForMSG(name) == checkForMSGLower(toLowerCase(name))

(***************************************************************************)
(* Normalizer and Matcher (ingredientParser.js)                            *)
(***************************************************************************)

\* variant: the string is trimmed first, before the characters are stripped
normalizeTrimFirst(name) ==
  replaceSpaceRuns(stripNonAlnum(trim(toLowerCase(name))), <<32>>)

normalizeIngredient(name) ==
  trim(replaceSpaceRuns(stripNonAlnum(toLowerCase(name)), <<32>>))

\* the result of a failed match (null)
NoMatch == [found |-> FALSE, rec |-> 0, step |-> "none"]

\* a.includes(b) || b.includes(a)
includesEitherWay(a, b) == includes(a, b) \/ includes(b, a)

\* the tests of one database entry in the loop of findIngredientMatch, given
\* its normalized name: the test on which the entry is returned, or "none"
entryStepNormalized(data, dbNormalized, normalized) ==
  IF normalized = dbNormalized THEN "exact"
  ELSE IF includesEitherWay(normalized, dbNormalized) THEN "partial"
  ELSE IF data.hasHiddenNames
          /\ \E h \in 1..Len(data.hiddenNames) :
               includesEitherWay(normalized, normalizeIngredient(data.hiddenNames[h]))
       THEN "alias"
       ELSE "none"

entryStep(data, normalized) ==
  entryStepNormalized(data, normalizeIngredient(data.name), normalized)

\* return data when the entry passed a test, else go on with the next entry
RECURSIVE scanEntries(_, _, _)
returnOrContinue(table, i, normalized, step) ==
  IF step = "none" THEN scanEntries(table, i + 1, normalized)
  ELSE [found |-> TRUE, rec |-> i, step |-> step]

\* the loop of findIngredientMatch over the entries from position i on
scanEntries(table, i, normalized) ==
  IF i > Len(table) THEN NoMatch
  ELSE returnOrContinue(table, i, normalized, entryStep(table[i], normalized))

\* a search hit as a match: rec is the position of the record in the combined
\* table, step records which test produced the hit
hitAsMatch(hit) ==
  [found |-> TRUE, rec |-> hit.rec,
   step |-> IF hit.matchType = "name" THEN "search-name" ELSE "search-hidden"]

\* variant: the matcher never looks at hiddenNames
findIngredientMatchNamesOnly(ingredientName) ==
  scanEntries([i \in 1..Len(ingredientDatabase) |->
                 [name |-> ingredientDatabase[i].name, hasHiddenNames |-> FALSE,
                  hiddenNames |-> <<>>]],
              1, normalizeIngredient(ingredientName))

\* variant: the last search result is returned instead of the first
matchFromLast(searchResults, normalized) ==
  IF Len(searchResults) > 0 THEN hitAsMatch(searchResults[Len(searchResults)])
  ELSE scanEntries(ingredientDatabase, 1, normalized)

\* findIngredientMatch after the direct search: its first result, or else the
\* outcome of the loop over the database entries
matchFrom(searchResults, normalized) ==
  IF Len(searchResults) > 0 THEN hitAsMatch(searchResults[1])
  ELSE scanEntries(ingredientDatabase, 1, normalized)

findIngredientMatch(ingredientName) ==
  matchFrom(searchIngredients(ingredientName), normalizeIngredient(ingredientName))

(***************************************************************************)
(* Unknown-ingredient classifier (ingredientParser.js)                     *)
(***************************************************************************)

NoNote == "undefined"

\* variant: the green keywords are not looked for
assessByFlagsNoGreen(lower) ==
  IF someIncluded(redFlags, lower)
  THEN [score |-> 40, concern |-> "moderate", category |-> cat_ProcessedAdditive,
        note |-> NoNote]
  ELSE IF someIncluded(yellowFlags, lower)
  THEN [score |-> 50, concern |-> "moderate", category |-> cat_Additive,
        note |-> NoNote]
  ELSE [score |-> 70, concern |-> "low", category |-> cat_Ingredient,
        note |-> NoNote]

\* variant: a name with a red flag is given concern 'high'
assessByFlagsRedHigh(lower) ==
  IF someIncluded(redFlags, lower)
  THEN [score |-> 40, concern |-> "high", category |-> cat_ProcessedAdditive,
        note |-> NoNote]
  ELSE IF someIncluded(yellowFlags, lower)
  THEN [score |-> 50, concern |-> "moderate", category |-> cat_Additive,
        note |-> NoNote]
  ELSE IF someIncluded(greenFlags, lower)
  THEN [score |-> 80, concern |-> "low", category |-> cat_NaturalIngredient,
        note |-> NoNote]
  ELSE [score |-> 70, concern |-> "low", category |-> cat_Ingredient,
        note |-> NoNote]

\* the keyword rules of assessUnknownIngredient, reached when the name is no
\* hidden sugar and has no MSG alias
assessByFlags(lower) ==
  IF someIncluded(redFlags, lower)
  THEN [score |-> 40, concern |-> "moderate", category |-> cat_ProcessedAdditive,
        note |-> NoNote]
  ELSE IF someIncluded(yellowFlags, lower)
  THEN [score |-> 50, concern |-> "moderate", category |-> cat_Additive,
        note |-> NoNote]
  ELSE IF someIncluded(greenFlags, lower)
  THEN [score |-> 80, concern |-> "low", category |-> cat_NaturalIngredient,
        note |-> NoNote]
  ELSE [score |-> 70, concern |-> "low", category |-> cat_Ingredient,
        note |-> NoNote]

\* variant: the MSG lists are consulted before the hidden-sugar list
assessWithMsgFirst(lower, hiddenSugar, msgCheck) ==
  IF msgCheck.containsMSG
  THEN [score |-> IF msgCheck.certainty = "high" THEN 50 ELSE 60,
        concern |-> "moderate", category |-> cat_FlavorEnhancer,
        note |-> IF msgCheck.certainty = "high"
                 THEN "May contain MSG (high certainty)"
                 ELSE "May contain MSG (moderate certainty)"]
  ELSE IF hiddenSugar
  THEN [score |-> 30, concern |-> "moderate", category |-> cat_HiddenSugar,
        note |-> "This is a form of added sugar"]
  ELSE assessByFlags(lower)

\* the rules of assessUnknownIngredient in their order, given the outcomes of
\* isHiddenSugar(name) and checkForMSG(name)
assessWith(lower, hiddenSugar, msgCheck) ==
  IF hiddenSugar
  THEN [score |-> 30, concern |-> "moderate", category |-> cat_HiddenSugar,
        note |-> "This is a form of added sugar"]
  ELSE IF msgCheck.containsMSG
  THEN [score |-> IF msgCheck.certainty = "high" THEN 50 ELSE 60,
        concern |-> "moderate", category |-> cat_FlavorEnhancer,
        note |-> IF msgCheck.certainty = "high"
                 THEN "May contain MSG (high certainty)"
                 ELSE "May contain MSG (moderate certainty)"]
  ELSE assessByFlags(lower)

assessUnknownIngredient(name) ==
  assessWith(toLowerCase(name), isHiddenSugar(name), checkForMSG(name))

(***************************************************************************)
(* Scoring aggregator (ingredientParser.js, parseIngredients)              *)
(***************************************************************************)

emptyConcerns ==
  [ sugar |-> [count |-> 0, names |-> <<>>],
    preservatives |-> [count |-> 0, names |-> <<>>],
    artificial |-> [count |-> 0, names |-> <<>>] ]

\* variant: the count is raised and the name is not pushed
bumpCountOnly(tally, n) == [count |-> tally.count + 1, names |-> tally.names]

\* count++ and names.push(n) on one tally
bump(tally, n) == [count |-> tally.count + 1, names |-> Append(tally.names, n)]

\* the ParsedIngredient built for a database hit
matchedIngredientData(match) ==
  [ id |-> match.id, name |-> match.name, score |-> match.score,
    category |-> match.category, concern |-> match.concern,
    note |-> NoNote, foundInDatabase |-> TRUE ]

\* variant: the three tests form an else-if chain, so that an ingredient is
\* counted in the first bucket whose test holds and in no other
concernTestsExclusive(match, ingredientName) ==
  LET cat == toLowerCase(match.category)
      isSugar == includes(cat, str_sweetener) \/ isHiddenSugar(ingredientName)
      isPreservative == includes(cat, str_preservative)
  IN  [ sugar |-> isSugar,
        preservatives |-> ~isSugar /\ isPreservative,
        artificial |-> ~isSugar /\ ~isPreservative
                       /\ (includes(cat, str_artificial) \/ includes(cat, str_color)) ]

\* the conditions of the three "Track concerns" tests for a database hit
concernTests(match, ingredientName) ==
  LET cat == toLowerCase(match.category)
  IN  [ sugar |-> includes(cat, str_sweetener) \/ isHiddenSugar(ingredientName),
        preservatives |-> includes(cat, str_preservative),
        artificial |-> includes(cat, str_artificial) \/ includes(cat, str_color) ]

\* "Track concerns" for a database hit, given the outcome of its tests
trackConcerns(c, match, tests) ==
  LET c1 == IF tests.sugar
            THEN [c EXCEPT !.sugar = bump(c.sugar, match.name)] ELSE c
      c2 == IF tests.preservatives
            THEN [c1 EXCEPT !.preservatives = bump(c1.preservatives, match.name)] ELSE c1
  IN  IF tests.artificial
      THEN [c2 EXCEPT !.artificial = bump(c2.artificial, match.name)] ELSE c2

\* profileAlerts.find(a => a.profile.includes(word)) found an entry
hasAlert(alerts, word) ==
  \E i \in 1..Len(alerts) : includes(alerts[i].profile, word)

\* variant: the alert is pushed without looking for an existing one
pushAlertAlways(alerts, flag, word, profile, message) ==
  IF flag THEN Append(alerts, [profile |-> profile, message |-> message]) ELSE alerts

\* variant: an existing alert of the type is overwritten by the new one
pushAlertLastWins(alerts, flag, word, profile, message) ==
  IF ~flag THEN alerts
  ELSE IF hasAlert(alerts, word)
  THEN [i \in 1..Len(alerts) |->
          IF includes(alerts[i].profile, word)
          THEN [profile |-> profile, message |-> message] ELSE alerts[i]]
  ELSE Append(alerts, [profile |-> profile, message |-> message])

\* one "if (match.<flag>) { if (!existing) push }" block
pushAlertOnce(alerts, flag, word, profile, message) ==
  IF flag /\ ~hasAlert(alerts, word)
  THEN Append(alerts, [profile |-> profile, message |-> message])
  ELSE alerts

\* "Check for profile alerts" for a database hit (every kidAlert of the table
\* is a boolean, so the message is always the 'caution advised' text)
checkProfileAlerts(alerts, match) ==
  LET a1 == pushAlertOnce(alerts, match.kidAlert, str_Kids, profile_Kids,
                          msg_Contains \o match.name \o msg_kid)
      a2 == pushAlertOnce(a1, match.heartHealthAlert, str_Heart, profile_HeartHealth,
                          msg_Contains \o match.name \o msg_heart)
  IN  pushAlertOnce(a2, match.diabeticAlert, str_Diabetic, profile_Diabetic,
                    msg_Contains \o match.name \o msg_diabetic)

\* variant: a name that is not in the database is marked as found
unknownIngredientDataFound(ingredientName, assessment) ==
  [ id |-> replaceSpaceRuns(normalizeIngredient(ingredientName), <<45>>),
    name |-> ingredientName, score |-> assessment.score,
    category |-> assessment.category, concern |-> assessment.concern,
    note |-> assessment.note, foundInDatabase |-> TRUE ]

\* the ParsedIngredient built for a name that is not in the database
unknownIngredientData(ingredientName, assessment) ==
  [ id |-> replaceSpaceRuns(normalizeIngredient(ingredientName), <<45>>),
    name |-> ingredientName, score |-> assessment.score,
    category |-> assessment.category, concern |-> assessment.concern,
    note |-> assessment.note, foundInDatabase |-> FALSE ]

\* variant: a name classified 'Processed Additive' is also counted under
\* artificial
trackProcessedAdditive(c, assessmentCategory, ingredientName) ==
  IF assessmentCategory = cat_HiddenSugar
  THEN [c EXCEPT !.sugar = bump(c.sugar, ingredientName)]
  ELSE IF assessmentCategory = cat_ProcessedAdditive
  THEN [c EXCEPT !.artificial = bump(c.artificial, ingredientName)]
  ELSE c

\* "Track hidden sugars" for a name that is not in the database
trackHiddenSugar(c, assessmentCategory, ingredientName) ==
  IF assessmentCategory = cat_HiddenSugar
  THEN [c EXCEPT !.sugar = bump(c.sugar, ingredientName)] ELSE c

\* variant: an empty list has the average 0
baseScoreZeroWhenEmpty(total, n) == IF n > 0 THEN roundDiv(total, n) ELSE 0

\* the average, or 50 for an empty list
baseScore(total, n) == IF n > 0 THEN roundDiv(total, n) ELSE 50

\* variant: the penalty is subtracted without the floor of 5
highConcernPenaltyNoFloor(score, count) == score - (count * 8)

\* variant: the penalty is subtracted once, however many ingredients have it
highConcernPenaltyOnce(score, count) ==
  IF count > 0 THEN Max(5, score - 8) ELSE Max(5, score)

\* "Penalize for high concern ingredients"
highConcernPenalty(score, count) == Max(5, score - (count * 8))

totalConcernsOf(c) == c.sugar.count + c.preservatives.count + c.artificial.count

\* variant: the bulk penalty starts at a total of 5
bulkConcernPenaltyAtFive(score, totalConcerns) ==
  IF totalConcerns >= 5 THEN Max(5, score - 10) ELSE score

\* "Penalize for many concerns"
bulkConcernPenalty(score, totalConcerns) ==
  IF totalConcerns > 5 THEN Max(5, score - 10) ELSE score

\* CATEGORY_ALTERNATIVES: the own properties of the object literal, in source
\* order; each value is the category's candidate array (price as code points)
CATEGORY_ALTERNATIVES ==
     ("Beverage" :> <<
      [ name |-> "Organic Kombucha", brand |-> "GT's", score |-> 82,
        price |-> <<36,51,46,57,57>>,  \* '$3.99'
        stores |-> <<"Whole Foods", "Target", "Kroger">>,
        highlights |-> <<"Probiotics", "Low sugar", "Organic">> ],
      [ name |-> "Sparkling Water with Fruit", brand |-> "Spindrift", score |-> 90,
        price |-> <<36,53,46,57,57,47,56,112,107>>,  \* '$5.99/8pk'
        stores |-> <<"Target", "Walmart", "Costco">>,
        highlights |-> <<"Real fruit juice", "No sweeteners", "Zero calories">> ],
      [ name |-> "Cold-Pressed Green Juice", brand |-> "Suja", score |-> 78,
        price |-> <<36,52,46,52,57>>,  \* '$4.49'
        stores |-> <<"Whole Foods", "Target", "Kroger">>,
        highlights |-> <<"Cold-pressed", "No added sugar", "Organic">> ],
      [ name |-> "Coconut Water", brand |-> "Harmless Harvest", score |-> 85,
        price |-> <<36,52,46,50,57>>,  \* '$4.29'
        stores |-> <<"Whole Foods", "Sprouts", "Target">>,
        highlights |-> <<"Raw", "No added sugar", "Electrolytes">> ]
     >>)
  @@ ("Dairy" :> <<
      [ name |-> "Organic Whole Milk Yogurt", brand |-> "Stonyfield", score |-> 80,
        price |-> <<36,53,46,52,57>>,  \* '$5.49'
        stores |-> <<"Target", "Kroger", "Whole Foods">>,
        highlights |-> <<"Organic", "Probiotics", "No artificial ingredients">> ],
      [ name |-> "Grass-Fed Whole Milk", brand |-> "Organic Valley", score |-> 85,
        price |-> <<36,54,46,57,57>>,  \* '$6.99'
        stores |-> <<"Whole Foods", "Kroger", "Sprouts">>,
        highlights |-> <<"Grass-fed", "No hormones", "Pasture-raised">> ],
      [ name |-> "Oat Milk (Unsweetened)", brand |-> "Oatly", score |-> 75,
        price |-> <<36,52,46,57,57>>,  \* '$4.99'
        stores |-> <<"Target", "Walmart", "Whole Foods">>,
        highlights |-> <<"Plant-based", "No added sugar", "Fortified">> ]
     >>)
  @@ ("Snack" :> <<
      [ name |-> "Organic Veggie Straws", brand |-> "Hippeas", score |-> 72,
        price |-> <<36,52,46,50,57>>,  \* '$4.29'
        stores |-> <<"Target", "Walmart", "Whole Foods">>,
        highlights |-> <<"Organic chickpeas", "No artificial flavors", "Gluten-free">> ],
      [ name |-> "Mixed Nuts (Unsalted)", brand |-> "Planters", score |-> 88,
        price |-> <<36,55,46,57,57>>,  \* '$7.99'
        stores |-> <<"Target", "Walmart", "Costco">>,
        highlights |-> <<"Whole foods", "Heart-healthy fats", "Protein">> ],
      [ name |-> "Organic Apple Chips", brand |-> "Bare", score |-> 82,
        price |-> <<36,51,46,57,57>>,  \* '$3.99'
        stores |-> <<"Target", "Whole Foods", "Kroger">>,
        highlights |-> <<"Single ingredient", "No added sugar", "Organic">> ]
     >>)
  @@ ("Meat" :> <<
      [ name |-> "Uncured Turkey Dogs", brand |-> "Applegate", score |-> 72,
        price |-> <<36,54,46,57,57>>,  \* '$6.99'
        stores |-> <<"Target", "Whole Foods", "Kroger">>,
        highlights |-> <<"No nitrites", "No artificial ingredients", "Organic">> ],
      [ name |-> "Organic Grass-Fed Beef Franks", brand |-> "Organic Prairie", score |-> 78,
        price |-> <<36,56,46,52,57>>,  \* '$8.49'
        stores |-> <<"Whole Foods", "Sprouts">>,
        highlights |-> <<"Grass-fed", "No added sugar", "No nitrites">> ],
      [ name |-> "All Natural Uncured Beef Franks", brand |-> "Niman Ranch", score |-> 70,
        price |-> <<36,55,46,52,57>>,  \* '$7.49'
        stores |-> <<"Whole Foods", "Safeway", "Costco">>,
        highlights |-> <<"Humanely raised", "No antibiotics", "No hormones">> ]
     >>)
  @@ ("Grain" :> <<
      [ name |-> "Organic Sprouted Bread", brand |-> "Ezekiel 4:9", score |-> 88,
        price |-> <<36,53,46,57,57>>,  \* '$5.99'
        stores |-> <<"Whole Foods", "Kroger", "Sprouts">>,
        highlights |-> <<"Sprouted grains", "No flour", "Complete protein">> ],
      [ name |-> "Organic Brown Rice", brand |-> "Lundberg", score |-> 92,
        price |-> <<36,52,46,57,57>>,  \* '$4.99'
        stores |-> <<"Target", "Whole Foods", "Kroger">>,
        highlights |-> <<"Whole grain", "Organic", "Single ingredient">> ],
      [ name |-> "Ancient Grain Pasta", brand |-> "Banza", score |-> 80,
        price |-> <<36,51,46,52,57>>,  \* '$3.49'
        stores |-> <<"Target", "Walmart", "Kroger">>,
        highlights |-> <<"Chickpea-based", "High protein", "Gluten-free">> ]
     >>)
  @@ ("Condiment" :> <<
      [ name |-> "Organic Yellow Mustard", brand |-> "Annie's", score |-> 85,
        price |-> <<36,51,46,52,57>>,  \* '$3.49'
        stores |-> <<"Target", "Whole Foods", "Kroger">>,
        highlights |-> <<"Organic", "Simple ingredients", "No artificial colors">> ],
      [ name |-> "Avocado Oil Mayo", brand |-> "Primal Kitchen", score |-> 78,
        price |-> <<36,56,46,57,57>>,  \* '$8.99'
        stores |-> <<"Whole Foods", "Target", "Sprouts">>,
        highlights |-> <<"Avocado oil", "No soybean oil", "No sugar">> ],
      [ name |-> "Organic Ketchup", brand |-> "Annie's", score |-> 72,
        price |-> <<36,51,46,57,57>>,  \* '$3.99'
        stores |-> <<"Target", "Kroger", "Whole Foods">>,
        highlights |-> <<"Organic tomatoes", "No HFCS", "Non-GMO">> ]
     >>)
  @@ ("Supplement" :> <<
      [ name |-> "Methylated B-Complex", brand |-> "Thorne", score |-> 92,
        price |-> <<36,50,56,46,48,48>>,  \* '$28.00'
        stores |-> <<"Amazon", "Thorne.com", "Whole Foods">>,
        highlights |-> <<"Bioavailable forms", "Third-party tested", "No fillers">> ],
      [ name |-> "Chelated Magnesium Glycinate", brand |-> "Pure Encapsulations", score |-> 90,
        price |-> <<36,50,52,46,48,48>>,  \* '$24.00'
        stores |-> <<"Amazon", "PureEncapsulations.com">>,
        highlights |-> <<"Chelated form", "High absorption", "Hypoallergenic">> ],
      [ name |-> "Whole Food Multivitamin", brand |-> "Garden of Life", score |-> 82,
        price |-> <<36,51,50,46,57,57>>,  \* '$32.99'
        stores |-> <<"Whole Foods", "Amazon", "Target">>,
        highlights |-> <<"Whole food sourced", "Probiotics included", "Non-GMO">> ]
     >>)
  @@ ("Baby Food" :> <<
      [ name |-> "Organic Baby Puree", brand |-> "Happy Baby", score |-> 88,
        price |-> <<36,49,46,52,57>>,  \* '$1.49'
        stores |-> <<"Target", "Walmart", "Kroger">>,
        highlights |-> <<"Organic", "No added sugar", "Non-GMO">> ],
      [ name |-> "Organic Teething Wafers", brand |-> "Happy Baby", score |-> 80,
        price |-> <<36,51,46,57,57>>,  \* '$3.99'
        stores |-> <<"Target", "Walmart", "Whole Foods">>,
        highlights |-> <<"Organic rice", "No wheat", "Gentle ingredients">> ]
     >>)
  @@ ("Frozen" :> <<
      [ name |-> "Organic Frozen Vegetables", brand |-> "Cascadian Farm", score |-> 92,
        price |-> <<36,51,46,52,57>>,  \* '$3.49'
        stores |-> <<"Target", "Kroger", "Whole Foods">>,
        highlights |-> <<"Organic", "Flash frozen", "No additives">> ],
      [ name |-> "Cauliflower Crust Pizza", brand |-> "Caulipower", score |-> 68,
        price |-> <<36,56,46,57,57>>,  \* '$8.99'
        stores |-> <<"Target", "Walmart", "Kroger">>,
        highlights |-> <<"Cauliflower crust", "Gluten-free", "Lower carb">> ]
     >>)
  @@ ("Bakery" :> <<
      [ name |-> "Organic Sourdough Bread", brand |-> "Dave's Killer Bread", score |-> 78,
        price |-> <<36,53,46,52,57>>,  \* '$5.49'
        stores |-> <<"Target", "Kroger", "Walmart">>,
        highlights |-> <<"Organic", "Whole grains", "Non-GMO">> ],
      [ name |-> "Gluten-Free Seed Crackers", brand |-> "Simple Mills", score |-> 80,
        price |-> <<36,52,46,57,57>>,  \* '$4.99'
        stores |-> <<"Target", "Whole Foods", "Kroger">>,
        highlights |-> <<"Almond flour", "No grains", "Simple ingredients">> ]
     >>)
  @@ ("Candy" :> <<
      [ name |-> "Dark Chocolate (85%)", brand |-> "Hu", score |-> 75,
        price |-> <<36,52,46,57,57>>,  \* '$4.99'
        stores |-> <<"Whole Foods", "Target", "Sprouts">>,
        highlights |-> <<"No refined sugar", "Organic cacao", "Fair trade">> ],
      [ name |-> "Fruit Snacks (Real Fruit)", brand |-> "That's It", score |-> 85,
        price |-> <<36,52,46,52,57>>,  \* '$4.49'
        stores |-> <<"Target", "Walmart", "Whole Foods">>,
        highlights |-> <<"Only fruit", "No added sugar", "No preservatives">> ]
     >>)
  @@ ("Other" :> <<
      [ name |-> "Organic Alternative", brand |-> "Various", score |-> 75,
        price |-> <<86,97,114,105,101,115>>,  \* 'Varies'
        stores |-> <<"Whole Foods", "Target", "Sprouts">>,
        highlights |-> <<"Organic", "Fewer additives", "Cleaner label">> ]
     >>)

(***************************************************************************)
(* Alternative ranker (aiService, getAlternativesForCategory)              *)
(***************************************************************************)

\* PRODUCT_CATEGORIES
PRODUCT_CATEGORIES ==
  << "Beverage", "Dairy", "Snack", "Meat", "Grain", "Condiment", "Supplement",
     "Baby Food", "Frozen", "Bakery", "Candy", "Other" >>

\* the property names an object literal inherits from Object.prototype: the
\* lookup CATEGORY_ALTERNATIVES[category] finds them when category is not an
\* own property, and their values are functions or objects, all truthy and
\* none with a map method
ObjectPrototypeKeys ==
  { "constructor", "toString", "toLocaleString", "valueOf", "hasOwnProperty",
    "isPrototypeOf", "propertyIsEnumerable", "__proto__", "__defineGetter__",
    "__defineSetter__", "__lookupGetter__", "__lookupSetter__" }

\* variant: a category without a list falls back to the first list of the
\* catalog instead of 'Other'
lookupOrFirstList(catalog, category) ==
  IF category \in DOMAIN catalog
  THEN [isArray |-> TRUE, bucket |-> category, list |-> catalog[category]]
  ELSE IF category \in ObjectPrototypeKeys
       THEN [isArray |-> FALSE, bucket |-> category, list |-> <<>>]
       ELSE [isArray |-> TRUE, bucket |-> PRODUCT_CATEGORIES[1],
             list |-> catalog[PRODUCT_CATEGORIES[1]]]

\* the property lookup on the catalog object: an own property is the
\* category's array, an inherited one is no array, and undefined gives way to
\* the 'Other' array
lookupOrOther(catalog, category) ==
  IF category \in DOMAIN catalog
  THEN [isArray |-> TRUE, bucket |-> category, list |-> catalog[category]]
  ELSE IF category \in ObjectPrototypeKeys
       THEN [isArray |-> FALSE, bucket |-> category, list |-> <<>>]
       ELSE [isArray |-> TRUE, bucket |-> "Other", list |-> catalog["Other"]]

\* CATEGORY_ALTERNATIVES[category] || CATEGORY_ALTERNATIVES['Other']
selectAlternatives(category) == lookupOrOther(CATEGORY_ALTERNATIVES, category)

IsDigitOrDot(c) == c \in 48..57 \/ c = 46

\* alt.price.replace(/[^0-9.]/g, '')
stripPrice(price) == SelectSeq(price, IsDigitOrDot)

RECURSIVE leadingDigits(_)
leadingDigits(s) ==
  IF s # <<>> /\ s[1] \in 48..57 THEN 1 + leadingDigits(Tail(s)) ELSE 0

RECURSIVE digitsValue(_)
digitsValue(s) ==
  IF s = <<>> THEN 0 ELSE 10 * digitsValue(SubSeq(s, 1, Len(s) - 1)) + (s[Len(s)] - 48)

RECURSIVE pow10(_)
pow10(n) == IF n = 0 THEN 1 ELSE 10 * pow10(n - 1)

\* parseFloat of a string of digits and dots: the longest prefix of the form
\* digits [. digits], as the fraction num / den; NaN when there is no digit
parseFloat(s) ==
  LET ni == leadingDigits(s)
      rest == SubSeq(s, ni + 1, Len(s))
      nf == IF rest # <<>> /\ rest[1] = 46 THEN leadingDigits(Tail(rest)) ELSE 0
  IN  IF ni + nf = 0 THEN [nan |-> TRUE, num |-> 0, den |-> 1]
      ELSE [nan |-> FALSE,
            num |-> digitsValue(SubSeq(s, 1, ni) \o SubSeq(rest, 2, nf + 1)),
            den |-> pow10(nf)]

\* x > n and x <= n on a parsed price; both are false of NaN
numGt(x, n) == ~x.nan /\ x.num > n * x.den
numLe(x, n) == ~x.nan /\ x.num <= n * x.den

\* the object built by the map callback for the candidate at 0-based index
decorate(alt, index, originalScore) ==
  LET p == parseFloat(stripPrice(alt.price))
  IN  [ id |-> index + 1, name |-> alt.name, brand |-> alt.brand, score |-> alt.score,
        price |-> alt.price, stores |-> alt.stores, highlights |-> alt.highlights,
        improvement |-> Max(0, alt.score - originalScore),
        priceLevel |-> IF numGt(p, 7) THEN "high"
                       ELSE IF numGt(p, 4) THEN "moderate" ELSE "budget",
        budgetPick |-> numLe(p, 4) ]

\* variant: the filter keeps a candidate that ties with the original score
RECURSIVE filterBetterOrEqual(_, _)
filterBetterOrEqual(list, originalScore) ==
  IF list = <<>> THEN <<>>
  ELSE IF list[1].score >= originalScore
       THEN <<list[1]>> \o filterBetterOrEqual(Tail(list), originalScore)
       ELSE filterBetterOrEqual(Tail(list), originalScore)

\* .filter(alt => alt.score > originalScore)
RECURSIVE filterBetter(_, _)
filterBetter(list, originalScore) ==
  IF list = <<>> THEN <<>>
  ELSE IF list[1].score > originalScore
       THEN <<list[1]>> \o filterBetter(Tail(list), originalScore)
       ELSE filterBetter(Tail(list), originalScore)

\* insertion of x into a list sorted by non-increasing improvement, after
\* every element that does not compare greater (the sort is stable)
RECURSIVE insertSorted(_, _)
insertSorted(sorted, x) ==
  IF sorted = <<>> THEN <<x>>
  ELSE IF x.improvement - sorted[1].improvement > 0
       THEN <<x>> \o sorted
       ELSE <<sorted[1]>> \o insertSorted(Tail(sorted), x)

\* variant: the list is returned in catalog order
leftUnsorted(list) == list

\* .sort((a, b) => b.improvement - a.improvement)
RECURSIVE sortByImprovement(_)
sortByImprovement(list) ==
  IF list = <<>> THEN <<>>
  ELSE insertSorted(sortByImprovement(SubSeq(list, 1, Len(list) - 1)), list[Len(list)])

\* alternatives.map(...).filter(...).sort(...); threw is the TypeError of
\* calling map on a value that is not an array
rankAlternatives(selected, score) ==
  IF ~selected.isArray
  THEN [threw |-> TRUE, bucket |-> selected.bucket, value |-> <<>>]
  ELSE [threw |-> FALSE, bucket |-> selected.bucket,
        value |-> sortByImprovement(filterBetter(
                    [i \in 1..Len(selected.list) |->
                       decorate(selected.list[i], i - 1, score)],
                    score))]

getAlternativesForCategory(cat, score) ==
  rankAlternatives(selectAlternatives(cat), score)

\* variant: sort is called on the catalog's own array, which it reorders
catalogSortedInPlace(cat, selected, score) ==
  IF ~selected.isArray THEN cat
  ELSE LET sorted == sortByImprovement(
                       [i \in 1..Len(selected.list) |->
                          decorate(selected.list[i], i - 1, score)])
       IN  [cat EXCEPT ![selected.bucket] =
              [i \in 1..Len(sorted) |-> selected.list[sorted[i].id]]]

\* the catalog after the call: map and filter each return a new array, and
\* the array that sort reorders in place is the one filter returned
catalogAfterSort(cat, selected, score) == cat

(***************************************************************************)
(* Reference data in memory                                                *)
(***************************************************************************)

\* the value of a property an object does not have
Undefined == "undefined"

\* the record objects of ingredientDatabase as they are in memory, in
\* insertion order: each is shown by its key, its scoring fields, the number
\* of its aliases, and the two properties searchIngredients gives to a hit,
\* which the records themselves do not have
databaseObject ==
  [ i \in 1..Len(ingredientDatabase) |->
      [ key |-> ingredientDatabase[i].key,
        score |-> ingredientDatabase[i].score,
        concern |-> ingredientDatabase[i].concern,
        hiddenNames |-> Len(ingredientDatabase[i].hiddenNames),
        matchType |-> Undefined,
        matchedName |-> Undefined ] ]

\* the alias arrays as they are in memory, each shown by its length
aliasListObjects ==
  [ hiddenSugarNames |-> Len(hiddenSugarNames),
    alwaysContainsMSG |-> Len(alwaysContainsMSG),
    oftenContainsMSG |-> Len(oftenContainsMSG) ]

(***************************************************************************)
(* Analysis pipeline (aiService: normalizeResult, analyzeWithProvider,     *)
(* getAvailableProviders)                                                  *)
(***************************************************************************)

\* the legacy productType map of normalizeResult
typeMap ==
  [ food |-> "Other", drink |-> "Beverage", snack |-> "Snack",
    supplement |-> "Supplement", condiment |-> "Condiment", other |-> "Other" ]

\* what a property inherited from Object.prototype evaluates to: a function
\* or an object, truthy, and no string
InheritedValue == "[inherited]"

\* typeMap[result.productType] || 'Other': an own property is a category, a
\* name inherited from Object.prototype gives the inherited value, and
\* anything else (a missing productType included) is undefined and gives
\* way to 'Other'
typeMapOrOther(productType) ==
  IF productType \in DOMAIN typeMap THEN typeMap[productType]
  ELSE IF productType \in ObjectPrototypeKeys THEN InheritedValue
  ELSE "Other"

\* normalizeResult: the productCategory of the returned object (productType
\* is deleted; the other fields are not carried)
normalizeResult(result) ==
  IF \/ result.productCategory \in {Undefined, ""}
     \/ ~(\E i \in 1..Len(PRODUCT_CATEGORIES) :
            PRODUCT_CATEGORIES[i] = result.productCategory)
  THEN [productCategory |-> typeMapOrOther(result.productType)]
  ELSE [productCategory |-> result.productCategory]

\* no sendToProvider call was made
NoResponse == [threw |-> FALSE, productCategory |-> "", productType |-> ""]

\* analyzeWithProvider, given what the first sendToProvider call gives and
\* what a second one would give: whether it throws, how many calls it made,
\* and the productCategory of the object it returns
analyzeWithProvider(first, second) ==
  IF first.threw
  THEN [threw |-> TRUE, calls |-> 1, productCategory |-> Undefined]
  ELSE LET result == normalizeResult(first)
       IN  IF result.productCategory = "Supplement"
           THEN IF second.threw
                THEN [threw |-> TRUE, calls |-> 2, productCategory |-> Undefined]
                ELSE LET supplementResult == normalizeResult(second)
                     IN  [ threw |-> FALSE, calls |-> 2,
                           productCategory |->
                             [supplementResult EXCEPT !.productCategory = "Supplement"]
                               .productCategory ]
           ELSE [threw |-> FALSE, calls |-> 1,
                 productCategory |-> result.productCategory]

\* getAvailableProviders, for the key lengths of API_KEYS: a provider is
\* pushed when its key is longer than 10 characters
getAvailableProviders(keys) ==
  SelectSeq(<<"openai", "gemini", "anthropic">>, LAMBDA p : keys[p] > 10)

\* providers.includes(p)
isAvailable(providers, p) == \E i \in 1..Len(providers) : providers[i] = p

\* variant: the providers are tried in the order getAvailableProviders lists
\* them
unorderedProviders(providers) == providers

\* priority.filter(p => providers.includes(p))
orderedProviders(providers) ==
  SelectSeq(<<"anthropic", "gemini", "openai">>, LAMBDA p : isAvailable(providers, p))

\* the latest analyzeWithProvider call made no sendToProvider call, and the
\* analysis call has returned nothing
NoPasses == [first |-> NoResponse, second |-> NoResponse]
NoAnalysis == [productCategory |-> Undefined, provider |-> Undefined]

\* the raw ingredient names the lists are drawn from: database names, an alias,
\* and names that are not in the database
RawNames ==
  {
    <<83,111,100,105,117,109,32,78,105,116,114,105,116,101>>,  \* 'Sodium Nitrite'
    <<72,105,103,104,32,70,114,117,99,116,111,115,101,32,67,111,114,110,32,83,121,114,117,112>>,  \* 'High Fructose Corn Syrup'
    <<67,105,116,114,105,99,32,65,99,105,100>>,  \* 'Citric Acid'
    <<80,114,97,103,117,101,32,80,111,119,100,101,114,32,35,49>>,  \* 'Prague Powder #1'
    <<65,115,112,97,114,116,97,109,101>>,  \* 'Aspartame'
    <<80,97,114,116,105,97,108,108,121,32,72,121,100,114,111,103,101,110,97,116,101,100,32,79,105,108,115,32,40,80,72,79,115,41>>,  \* 'Partially Hydrogenated Oils (PHOs)'
    <<79,114,103,97,110,105,99,32,81,117,105,110,111,97,32,70,108,97,107,101,115>>,  \* 'Organic Quinoa Flakes'
    <<67,97,110,101,32,83,117,103,97,114>>  \* 'Cane Sugar'
  }


\* list elements that are no strings, a number, null and a plain object: each
\* is shown as a one-element sequence holding a negative tag (the code points
\* of a string are never negative)
NonStringElements == { <<-1>>, <<-2>>, <<-3>> }

\* typeof x === 'string'
isString(x) == \A i \in 1..Len(x) : x[i] >= 0

\* the elements the lists with malformed entries are drawn from
MalformedElements ==
  {
    <<83,111,100,105,117,109,32,78,105,116,114,105,116,101>>,  \* 'Sodium Nitrite'
    <<79,114,103,97,110,105,99,32,81,117,105,110,111,97,32,70,108,97,107,101,115>>,  \* 'Organic Quinoa Flakes'
    <<67,97,110,101,32,83,117,103,97,114>>  \* 'Cane Sugar'
  } \cup NonStringElements

\* the names the calls of a session are made with
SessionNames ==
  {
    <<83,111,100,105,117,109,32,78,105,116,114,105,116,101>>,  \* 'Sodium Nitrite'
    <<79,114,103,97,110,105,99,32,81,117,105,110,111,97,32,70,108,97,107,101,115>>  \* 'Organic Quinoa Flakes'
  }

\* the raw names lookupIngredient is called with: every name and alias of the
\* table as written, and names that are substrings, variants or not in the table
MatchQueries ==
  {
    <<83,111,100,105,117,109,32,78,105,116,114,105,116,101>>,  \* 'Sodium Nitrite'
    <<67,117,114,105,110,103,32,115,97,108,116>>,  \* 'Curing salt'
    <<80,114,97,103,117,101,32,80,111,119,100,101,114,32,35,49>>,  \* 'Prague Powder #1'
    <<80,105,110,107,32,99,117,114,105,110,103,32,115,97,108,116>>,  \* 'Pink curing salt'
    <<78,105,116,114,105,116,101,32,112,105,99,107,108,105,110,103,32,115,97,108,116>>,  \* 'Nitrite pickling salt'
    <<67,101,108,101,114,121,32,112,111,119,100,101,114>>,  \* 'Celery powder'
    <<67,101,108,101,114,121,32,106,117,105,99,101>>,  \* 'Celery juice'
    <<67,101,108,101,114,121,32,101,120,116,114,97,99,116>>,  \* 'Celery extract'
    <<83,111,100,105,117,109,32,66,101,110,122,111,97,116,101>>,  \* 'Sodium Benzoate'
    <<66,101,110,122,111,97,116,101,32,111,102,32,115,111,100,97>>,  \* 'Benzoate of soda'
    <<83,111,100,105,117,109,32,115,97,108,116,32,111,102,32,98,101,110,122,111,105,99,32,97,99,105,100>>,  \* 'Sodium salt of benzoic acid'
    <<66,101,110,122,111,105,99,32,97,99,105,100,32,40,69,50,49,48,41>>,  \* 'Benzoic acid (E210)'
    <<80,111,116,97,115,115,105,117,109,32,98,101,110,122,111,97,116,101,32,40,69,50,49,50,41>>,  \* 'Potassium benzoate (E212)'
    <<67,97,108,99,105,117,109,32,98,101,110,122,111,97,116,101,32,40,69,50,49,51,41>>,  \* 'Calcium benzoate (E213)'
    <<66,72,65,32,40,66,117,116,121,108,97,116,101,100,32,72,121,100,114,111,120,121,97,110,105,115,111,108,101,41>>,  \* 'BHA (Butylated Hydroxyanisole)'
    <<66,117,116,121,108,97,116,101,100,32,104,121,100,114,111,120,121,97,110,105,115,111,108,101>>,  \* 'Butylated hydroxyanisole'
    <<116,101,114,116,45,98,117,116,121,108,45,52,45,104,121,100,114,111,120,121,97,110,105,115,111,108,101>>,  \* 'tert-butyl-4-hydroxyanisole'
    <<65,110,116,105,111,120,105,100,97,110,116,32,66,72,65>>,  \* 'Antioxidant BHA'
    <<69,51,50,48>>,  \* 'E320'
    <<66,72,84,32,40,66,117,116,121,108,97,116,101,100,32,72,121,100,114,111,120,121,116,111,108,117,101,110,101,41>>,  \* 'BHT (Butylated Hydroxytoluene)'
    <<66,117,116,121,108,97,116,101,100,32,104,121,100,114,111,120,121,116,111,108,117,101,110,101>>,  \* 'Butylated hydroxytoluene'
    <<50,44,54,45,100,105,45,116,101,114,116,45,98,117,116,121,108,45,52,45,109,101,116,104,121,108,112,104,101,110,111,108>>,  \* '2,6-di-tert-butyl-4-methylphenol'
    <<68,66,80,67>>,  \* 'DBPC'
    <<69,51,50,49>>,  \* 'E321'
    <<80,111,116,97,115,115,105,117,109,32,66,114,111,109,97,116,101>>,  \* 'Potassium Bromate'
    <<66,114,111,109,97,116,101>>,  \* 'Bromate'
    <<66,114,111,109,97,116,101,100,32,102,108,111,117,114>>,  \* 'Bromated flour'
    <<75,66,114,79,51>>,  \* 'KBrO3'
    <<67,97,108,99,105,117,109,32,80,114,111,112,105,111,110,97,116,101>>,  \* 'Calcium Propionate'
    <<67,97,108,99,105,117,109,32,112,114,111,112,97,110,111,97,116,101>>,  \* 'Calcium propanoate'
    <<69,50,56,50>>,  \* 'E282'
    <<65,115,112,97,114,116,97,109,101>>,  \* 'Aspartame'
    <<78,117,116,114,97,83,119,101,101,116>>,  \* 'NutraSweet'
    <<69,113,117,97,108>>,  \* 'Equal'
    <<67,97,110,100,101,114,101,108>>,  \* 'Canderel'
    <<65,109,105,110,111,83,119,101,101,116>>,  \* 'AminoSweet'
    <<76,45,97,115,112,97,114,116,121,108,45,76,45,112,104,101,110,121,108,97,108,97,110,105,110,101,32,109,101,116,104,121,108,32,101,115,116,101,114>>,  \* 'L-aspartyl-L-phenylalanine methyl ester'
    <<69,57,53,49>>,  \* 'E951'
    <<83,117,99,114,97,108,111,115,101>>,  \* 'Sucralose'
    <<83,112,108,101,110,100,97>>,  \* 'Splenda'
    <<83,117,107,114,97,110,97>>,  \* 'Sukrana'
    <<83,117,99,114,97,80,108,117,115>>,  \* 'SucraPlus'
    <<67,97,110,100,121,115>>,  \* 'Candys'
    <<78,101,118,101,108,108,97>>,  \* 'Nevella'
    <<69,57,53,53>>,  \* 'E955'
    <<72,105,103,104,32,70,114,117,99,116,111,115,101,32,67,111,114,110,32,83,121,114,117,112>>,  \* 'High Fructose Corn Syrup'
    <<73,115,111,103,108,117,99,111,115,101>>,  \* 'Isoglucose'
    <<71,108,117,99,111,115,101,45,102,114,117,99,116,111,115,101,32,115,121,114,117,112>>,  \* 'Glucose-fructose syrup'
    <<70,114,117,99,116,111,115,101,45,103,108,117,99,111,115,101,32,115,121,114,117,112>>,  \* 'Fructose-glucose syrup'
    <<67,111,114,110,32,115,117,103,97,114,32,40,114,101,106,101,99,116,101,100,32,98,121,32,70,68,65,41>>,  \* 'Corn sugar (rejected by FDA)'
    <<77,97,105,122,101,32,115,121,114,117,112>>,  \* 'Maize syrup'
    <<72,70,67,83,45,52,50>>,  \* 'HFCS-42'
    <<72,70,67,83,45,53,53>>,  \* 'HFCS-55'
    <<72,70,67,83,45,57,48>>,  \* 'HFCS-90'
    <<82,101,100,32,52,48,32,40,65,108,108,117,114,97,32,82,101,100,32,65,67,41>>,  \* 'Red 40 (Allura Red AC)'
    <<65,108,108,117,114,97,32,82,101,100,32,65,67>>,  \* 'Allura Red AC'
    <<67,73,32,49,54,48,51,53>>,  \* 'CI 16035'
    <<82,101,100,32,52,48,32,76,97,107,101>>,  \* 'Red 40 Lake'
    <<70,68,38,67,32,82,101,100,32,78,111,46,32,52,48>>,  \* 'FD&C Red No. 40'
    <<73,78,83,32,49,50,57>>,  \* 'INS 129'
    <<69,49,50,57>>,  \* 'E129'
    <<89,101,108,108,111,119,32,53,32,40,84,97,114,116,114,97,122,105,110,101,41>>,  \* 'Yellow 5 (Tartrazine)'
    <<84,97,114,116,114,97,122,105,110,101>>,  \* 'Tartrazine'
    <<67,73,32,49,57,49,52,48>>,  \* 'CI 19140'
    <<65,99,105,100,32,89,101,108,108,111,119,32,50,51>>,  \* 'Acid Yellow 23'
    <<70,68,38,67,32,89,101,108,108,111,119,32,78,111,46,32,53>>,  \* 'FD&C Yellow No. 5'
    <<73,78,83,32,49,48,50>>,  \* 'INS 102'
    <<69,49,48,50>>,  \* 'E102'
    <<89,101,108,108,111,119,32,54,32,40,83,117,110,115,101,116,32,89,101,108,108,111,119,41>>,  \* 'Yellow 6 (Sunset Yellow)'
    <<83,117,110,115,101,116,32,89,101,108,108,111,119,32,70,67,70>>,  \* 'Sunset Yellow FCF'
    <<67,73,32,49,53,57,56,53>>,  \* 'CI 15985'
    <<79,114,97,110,103,101,32,89,101,108,108,111,119,32,83>>,  \* 'Orange Yellow S'
    <<70,68,38,67,32,89,101,108,108,111,119,32,78,111,46,32,54>>,  \* 'FD&C Yellow No. 6'
    <<73,78,83,32,49,49,48>>,  \* 'INS 110'
    <<69,49,49,48>>,  \* 'E110'
    <<82,101,100,32,51,32,40,69,114,121,116,104,114,111,115,105,110,101,41>>,  \* 'Red 3 (Erythrosine)'
    <<69,114,121,116,104,114,111,115,105,110,101,32,66>>,  \* 'Erythrosine B'
    <<67,73,32,52,53,52,51,48>>,  \* 'CI 45430'
    <<65,99,105,100,32,82,101,100,32,53,49>>,  \* 'Acid Red 51'
    <<70,68,38,67,32,82,101,100,32,78,111,46,32,51>>,  \* 'FD&C Red No. 3'
    <<73,78,83,32,49,50,55>>,  \* 'INS 127'
    <<69,49,50,55>>,  \* 'E127'
    <<67,97,114,97,109,101,108,32,67,111,108,111,114,32,40,67,108,97,115,115,32,73,73,73,47,73,86,41>>,  \* 'Caramel Color (Class III/IV)'
    <<67,97,114,97,109,101,108,32,99,111,108,111,114>>,  \* 'Caramel color'
    <<69,49,53,48,97,32,40,67,108,97,115,115,32,73,32,45,32,80,108,97,105,110,44,32,115,97,102,101,114,41>>,  \* 'E150a (Class I - Plain, safer)'
    <<69,49,53,48,98,32,40,67,108,97,115,115,32,73,73,32,45,32,67,97,117,115,116,105,99,32,115,117,108,102,105,116,101,41>>,  \* 'E150b (Class II - Caustic sulfite)'
    <<69,49,53,48,99,32,40,67,108,97,115,115,32,73,73,73,32,45,32,65,109,109,111,110,105,97,44,32,99,111,110,116,97,105,110,115,32,52,45,77,69,73,41>>,  \* 'E150c (Class III - Ammonia, contains 4-MEI)'
    <<69,49,53,48,100,32,40,67,108,97,115,115,32,73,86,32,45,32,83,117,108,102,105,116,101,32,97,109,109,111,110,105,97,44,32,99,111,110,116,97,105,110,115,32,52,45,77,69,73,41>>,  \* 'E150d (Class IV - Sulfite ammonia, contains 4-MEI)'
    <<67,97,114,114,97,103,101,101,110,97,110>>,  \* 'Carrageenan'
    <<73,114,105,115,104,32,109,111,115,115,32,101,120,116,114,97,99,116>>,  \* 'Irish moss extract'
    <<67,104,111,110,100,114,117,115,32,99,114,105,115,112,117,115,32,101,120,116,114,97,99,116>>,  \* 'Chondrus crispus extract'
    <<69,52,48,55,97,32,40,112,114,111,99,101,115,115,101,100,32,69,117,99,104,101,117,109,97,32,115,101,97,119,101,101,100,41>>,  \* 'E407a (processed Eucheuma seaweed)'
    <<80,69,83>>,  \* 'PES'
    <<69,52,48,55>>,  \* 'E407'
    <<88,97,110,116,104,97,110,32,71,117,109>>,  \* 'Xanthan Gum'
    <<67,111,114,110,32,115,117,103,97,114,32,103,117,109>>,  \* 'Corn sugar gum'
    <<80,111,108,121,115,97,99,99,104,97,114,105,100,101,32,103,117,109>>,  \* 'Polysaccharide gum'
    <<69,52,49,53>>,  \* 'E415'
    <<77,111,110,111,45,32,97,110,100,32,68,105,103,108,121,99,101,114,105,100,101,115>>,  \* 'Mono- and Diglycerides'
    <<71,108,121,99,101,114,121,108,32,109,111,110,111,115,116,101,97,114,97,116,101,32,40,71,77,83,41>>,  \* 'Glyceryl monostearate (GMS)'
    <<71,108,121,99,101,114,121,108,32,109,111,110,111,112,97,108,109,105,116,97,116,101>>,  \* 'Glyceryl monopalmitate'
    <<68,105,115,116,105,108,108,101,100,32,109,111,110,111,103,108,121,99,101,114,105,100,101,115>>,  \* 'Distilled monoglycerides'
    <<65,99,101,116,121,108,97,116,101,100,32,109,111,110,111,103,108,121,99,101,114,105,100,101,115>>,  \* 'Acetylated monoglycerides'
    <<68,65,84,69,77,32,40,69,52,55,50,101,41>>,  \* 'DATEM (E472e)'
    <<69,52,55,49>>,  \* 'E471'
    <<77,83,71,32,40,77,111,110,111,115,111,100,105,117,109,32,71,108,117,116,97,109,97,116,101,41>>,  \* 'MSG (Monosodium Glutamate)'
    <<71,108,117,116,97,109,105,99,32,97,99,105,100,32,40,69,54,50,48,41>>,  \* 'Glutamic acid (E620)'
    <<77,111,110,111,112,111,116,97,115,115,105,117,109,32,103,108,117,116,97,109,97,116,101,32,40,69,54,50,50,41>>,  \* 'Monopotassium glutamate (E622)'
    <<89,101,97,115,116,32,101,120,116,114,97,99,116>>,  \* 'Yeast extract'
    <<65,117,116,111,108,121,122,101,100,32,121,101,97,115,116>>,  \* 'Autolyzed yeast'
    <<72,121,100,114,111,108,121,122,101,100,32,112,114,111,116,101,105,110>>,  \* 'Hydrolyzed protein'
    <<78,97,116,117,114,97,108,32,102,108,97,118,111,114,115,32,40,109,97,121,32,99,111,110,116,97,105,110,41>>,  \* 'Natural flavors (may contain)'
    <<77,97,108,116,111,100,101,120,116,114,105,110>>,  \* 'Maltodextrin'
    <<77,111,100,105,102,105,101,100,32,99,111,114,110,115,116,97,114,99,104>>,  \* 'Modified cornstarch'
    <<77,111,100,105,102,105,101,100,32,102,111,111,100,32,115,116,97,114,99,104>>,  \* 'Modified food starch'
    <<71,108,117,99,111,115,101,32,112,111,108,121,109,101,114>>,  \* 'Glucose polymer'
    <<68,101,120,116,114,105,110>>,  \* 'Dextrin'
    <<67,111,114,110,32,115,116,97,114,99,104,32,115,111,108,105,100,115>>,  \* 'Corn starch solids'
    <<80,97,114,116,105,97,108,108,121,32,72,121,100,114,111,103,101,110,97,116,101,100,32,79,105,108,115,32,40,80,72,79,115,41>>,  \* 'Partially Hydrogenated Oils (PHOs)'
    <<80,97,114,116,105,97,108,108,121,32,104,121,100,114,111,103,101,110,97,116,101,100,32,118,101,103,101,116,97,98,108,101,32,111,105,108>>,  \* 'Partially hydrogenated vegetable oil'
    <<80,97,114,116,105,97,108,108,121,32,104,121,100,114,111,103,101,110,97,116,101,100,32,115,111,121,98,101,97,110,32,111,105,108>>,  \* 'Partially hydrogenated soybean oil'
    <<80,97,114,116,105,97,108,108,121,32,104,121,100,114,111,103,101,110,97,116,101,100,32,99,111,116,116,111,110,115,101,101,100,32,111,105,108>>,  \* 'Partially hydrogenated cottonseed oil'
    <<80,97,114,116,105,97,108,108,121,32,104,121,100,114,111,103,101,110,97,116,101,100,32,99,97,110,111,108,97,32,111,105,108>>,  \* 'Partially hydrogenated canola oil'
    <<83,104,111,114,116,101,110,105,110,103,32,40,119,104,101,110,32,109,97,100,101,32,102,114,111,109,32,80,72,79,115,41>>,  \* 'Shortening (when made from PHOs)'
    <<72,97,114,100,32,109,97,114,103,97,114,105,110,101>>,  \* 'Hard margarine'
    <<67,105,116,114,105,99,32,65,99,105,100>>,  \* 'Citric Acid'
    <<65,115,99,111,114,98,105,99,32,65,99,105,100,32,40,86,105,116,97,109,105,110,32,67,41>>,  \* 'Ascorbic Acid (Vitamin C)'
    <<84,111,99,111,112,104,101,114,111,108,115,32,40,86,105,116,97,109,105,110,32,69,41>>,  \* 'Tocopherols (Vitamin E)'
    <<83,116,101,118,105,97,32,40,83,116,101,118,105,111,108,32,71,108,121,99,111,115,105,100,101,115,41>>,  \* 'Stevia (Steviol Glycosides)'
    <<80,101,99,116,105,110>>,  \* 'Pectin'
    <<97,99,105,100>>,  \* 'acid'
    <<115,111,100,105,117,109>>,  \* 'sodium'
    <<>>,  \* ''
    <<32>>,  \* ' '
    <<71,114,97,112,101,115>>,  \* 'Grapes'
    <<77,111,110,111,32,97,110,100,32,68,105,103,108,121,99,101,114,105,100,101,115>>,  \* 'Mono and Diglycerides'
    <<79,114,103,97,110,105,99,32,81,117,105,110,111,97,32,70,108,97,107,101,115>>,  \* 'Organic Quinoa Flakes'
    <<79,114,103,97,110,105,99,32,67,105,116,114,105,99,32,65,99,105,100,32,80,111,119,100,101,114>>,  \* 'Organic Citric Acid Powder'
    <<67,97,110,101,32,83,117,103,97,114>>,  \* 'Cane Sugar'
    <<121,101,108,108,111,119>>,  \* 'yellow'
    <<114,101,100>>,  \* 'red'
    <<101>>,  \* 'e'
    <<83,112,108,101,110,100,97,32,98,114,97,110,100,32,115,119,101,101,116,101,110,101,114>>,  \* 'Splenda brand sweetener'
    <<78,97,116,117,114,97,108,32,70,108,97,118,111,114,115>>,  \* 'Natural Flavors'
    <<86,105,116,97,109,105,110,32,67>>,  \* 'Vitamin C'
    <<99,111,114,110,32,115,121,114,117,112>>,  \* 'corn syrup'
    <<83,117,103,97,114>>,  \* 'Sugar'
    <<83,97,108,116>>,  \* 'Salt'
    <<87,97,116,101,114>>,  \* 'Water'
    <<65,114,116,105,102,105,99,105,97,108,32,70,108,97,118,111,114>>,  \* 'Artificial Flavor'
    <<89,101,97,115,116,32,69,120,116,114,97,99,116>>,  \* 'Yeast Extract'
    <<99,111,108,111,114>>,  \* 'color'
    <<103,117,109>>,  \* 'gum'
    <<80,82,65,71,85,69,32,80,79,87,68,69,82,32,35,49>>,  \* 'PRAGUE POWDER #1'
    <<32,32,80,114,97,103,117,101,32,80,111,119,100,101,114,32,35,49,32>>,  \* '  Prague Powder #1 '
    <<82,101,100,32,35,52,48>>,  \* 'Red #40'
    <<82,101,100,32,52,48>>,  \* 'Red 40'
    <<66,72,65>>,  \* 'BHA'
    <<98,104,116>>,  \* 'bht'
    <<69,110,114,105,99,104,101,100,32,87,104,101,97,116,32,70,108,111,117,114>>,  \* 'Enriched Wheat Flour'
    <<77,111,100,105,102,105,101,100,32,67,111,114,110,32,83,116,97,114,99,104>>,  \* 'Modified Corn Starch'
    <<83,111,121,32,76,101,99,105,116,104,105,110>>,  \* 'Soy Lecithin'
    <<68,101,120,116,114,111,115,101>>,  \* 'Dextrose'
    <<103,108,117,116,97,109,97,116,101>>,  \* 'glutamate'
    <<115,121,114,117,112>>,  \* 'syrup'
    <<89,101,108,108,111,119,32,53,32,38,32,89,101,108,108,111,119,32,54>>,  \* 'Yellow 5 & Yellow 6'
    <<69,32,57,53,49>>,  \* 'E 951'
    <<72,121,100,114,111,103,101,110,97,116,101,100,32,80,97,108,109,32,79,105,108>>,  \* 'Hydrogenated Palm Oil'
    <<83,101,97,32,83,97,108,116>>,  \* 'Sea Salt'
    <<67,101,108,101,114,121,32,74,117,105,99,101,32,80,111,119,100,101,114>>,  \* 'Celery Juice Powder'
    <<67,105,116,114,105,99,32,65,99,105,100,32,40,80,114,101,115,101,114,118,97,116,105,118,101,41>>,  \* 'Citric Acid (Preservative)'
    <<65,115,99,111,114,98,105,99,32,65,99,105,100>>,  \* 'Ascorbic Acid'
    <<86,105,116,97,109,105,110,32,69>>,  \* 'Vitamin E'
    <<83,116,101,118,105,97,32,76,101,97,102,32,69,120,116,114,97,99,116>>,  \* 'Stevia Leaf Extract'
    <<88,97,110,116,104,97,110>>,  \* 'Xanthan'
    <<80,111,116,97,115,115,105,117,109,32,83,111,114,98,97,116,101>>,  \* 'Potassium Sorbate'
    <<67,97,108,99,105,117,109>>,  \* 'Calcium'
    <<69,113,117,97,108,32,112,97,114,116,115>>,  \* 'Equal parts'
    <<70,68,38,67,32,66,108,117,101,32,78,111,46,32,49>>  \* 'FD&C Blue No. 1'
  }

\* names the classifier is called with beyond the lookup queries: names that
\* satisfy none, one or several of its rules
ClassifierNames ==
  {
    <<79,114,103,97,110,105,99,32,67,97,110,101,32,83,117,103,97,114>>,
    <<65,114,116,105,102,105,99,105,97,108,32,70,108,97,118,111,114>>,
    <<78,97,116,117,114,97,108,32,70,108,97,118,111,114>>,
    <<78,97,116,117,114,97,108,32,70,108,97,118,111,114,115>>,
    <<89,101,97,115,116,32,69,120,116,114,97,99,116>>,
    <<79,114,103,97,110,105,99,32,89,101,97,115,116,32,69,120,116,114,97,99,116>>,
    <<65,117,116,111,108,121,122,101,100,32,89,101,97,115,116,32,69,120,116,114,97,99,116>>,
    <<77,111,100,105,102,105,101,100,32,70,111,111,100,32,83,116,97,114,99,104>>,
    <<77,111,100,105,102,105,101,100,32,67,111,114,110,32,83,116,97,114,99,104>>,
    <<72,121,100,114,111,103,101,110,97,116,101,100,32,83,111,121,98,101,97,110,32,79,105,108>>,
    <<72,121,100,114,111,108,121,122,101,100,32,83,111,121,32,80,114,111,116,101,105,110>>,
    <<65,114,116,105,102,105,99,105,97,108,32,67,111,108,111,114>>,
    <<78,97,116,117,114,97,108,32,67,111,108,111,114>>,
    <<67,111,108,111,114,32,65,100,100,101,100>>,
    <<86,105,116,97,109,105,110,32,67>>,
    <<87,97,116,101,114>>,
    <<83,101,97,32,83,97,108,116>>,
    <<83,112,105,99,101,115>>,
    <<81,117,105,110,111,97>>,
    <<87,104,101,97,116,32,70,108,111,117,114>>,
    <<72,79,78,69,89>>,
    <<79,114,103,97,110,105,99,32,72,111,110,101,121>>,
    <<67,104,105,99,107,101,110,32,66,114,111,116,104>>,
    <<65,114,116,105,102,105,99,105,97,108,32,67,104,105,99,107,101,110,32,66,114,111,116,104>>,
    <<83,111,121,32,83,97,117,99,101>>,
    <<77,97,108,116,111,100,101,120,116,114,105,110>>,
    <<66,97,114,108,101,121,32,77,97,108,116,32,69,120,116,114,97,99,116>>,
    <<83,121,110,116,104,101,116,105,99,32,86,105,116,97,109,105,110,32,69>>,
    <<80,114,101,115,101,114,118,97,116,105,118,101,32,40,78,97,116,117,114,97,108,41>>,
    <<67,97,114,97,109,101,108,32,67,111,108,111,114>>,
    <<71,108,117,116,97,109,97,116,101,32,66,114,111,116,104>>,
    <<83,101,97,115,111,110,105,110,103,115>>,
    <<71,101,108,97,116,105,110>>,
    <<78,97,116,117,114,97,108,32,70,108,97,118,111,114,105,110,103,32,119,105,116,104,32,71,108,117,116,97,109,97,116,101>>,
    <<68,121,101>>,
    <<77,105,110,101,114,97,108,32,83,97,108,116>>,
    <<>>,
    <<70,114,117,105,116,32,74,117,105,99,101,32,67,111,110,99,101,110,116,114,97,116,101>>,
    <<79,114,103,97,110,105,99,32,65,114,116,105,102,105,99,105,97,108,32,70,108,97,118,111,114>>,
    <<79,114,103,97,110,105,99,32,81,117,105,110,111,97,32,70,108,97,107,101,115>>,
    <<83,121,110,116,104,101,116,105,99,32,68,121,101>>,
    <<77,111,100,105,102,105,101,100,32,78,97,116,117,114,97,108,32,83,112,105,99,101>>,
    <<86,101,103,101,116,97,98,108,101,32,83,116,111,99,107>>,
    <<65,114,116,105,102,105,99,105,97,108,32,86,101,116,115,105,110>>,
    <<79,114,103,97,110,105,99,32,68,101,120,116,114,111,115,101>>,
    <<78,97,116,117,114,97,108,32,71,108,117,99,111,115,101,32,83,121,114,117,112,32,83,111,108,105,100,115>>,
    <<82,111,108,108,101,100,32,79,97,116,115>>,
    <<70,108,97,118,111,114,105,110,103>>,
    <<79,114,103,97,110,105,99,32,66,101,101,116,32,83,117,103,97,114,32,70,108,97,118,111,114>>
  }
\* in the order above: 'Organic Cane Sugar', 'Artificial Flavor', 'Natural
\* Flavor', 'Natural Flavors', 'Yeast Extract', 'Organic Yeast Extract',
\* 'Autolyzed Yeast Extract', 'Modified Food Starch', 'Modified Corn Starch',
\* 'Hydrogenated Soybean Oil', 'Hydrolyzed Soy Protein', 'Artificial Color',
\* 'Natural Color', 'Color Added', 'Vitamin C', 'Water', 'Sea Salt',
\* 'Spices', 'Quinoa', 'Wheat Flour', 'HONEY', 'Organic Honey', 'Chicken
\* Broth', 'Artificial Chicken Broth', 'Soy Sauce', 'Maltodextrin', 'Barley
\* Malt Extract', 'Synthetic Vitamin E', 'Preservative (Natural)', 'Caramel
\* Color', 'Glutamate Broth', 'Seasonings', 'Gelatin', 'Natural Flavoring
\* with Glutamate', 'Dye', 'Mineral Salt', '', 'Fruit Juice Concentrate',
\* 'Organic Artificial Flavor', 'Organic Quinoa Flakes', 'Synthetic Dye',
\* 'Modified Natural Spice', 'Vegetable Stock', 'Artificial Vetsin', 'Organic
\* Dextrose', 'Natural Glucose Syrup Solids', 'Rolled Oats', 'Flavoring',
\* 'Organic Beet Sugar Flavor'

\* the names the short lists are drawn from: names of records of every
\* combination of tally tests, an alias, names that are not in the database,
\* the empty string and a string of spaces
TallyNames ==
  {
    <<83,111,100,105,117,109,32,78,105,116,114,105,116,101>>,  \* 'Sodium Nitrite'
    <<72,105,103,104,32,70,114,117,99,116,111,115,101,32,67,111,114,110,32,83,121,114,117,112>>,  \* 'High Fructose Corn Syrup'
    <<65,115,112,97,114,116,97,109,101>>,  \* 'Aspartame'
    <<67,105,116,114,105,99,32,65,99,105,100>>,  \* 'Citric Acid'
    <<67,97,114,97,109,101,108,32,67,111,108,111,114>>,  \* 'Caramel Color'
    <<77,97,108,116,111,100,101,120,116,114,105,110>>,  \* 'Maltodextrin'
    <<82,101,100,32,52,48>>,  \* 'Red 40'
    <<88,97,110,116,104,97,110,32,71,117,109>>,  \* 'Xanthan Gum'
    <<80,114,97,103,117,101,32,80,111,119,100,101,114,32,35,49>>,  \* 'Prague Powder #1'
    <<67,97,110,101,32,83,117,103,97,114>>,  \* 'Cane Sugar'
    <<65,114,116,105,102,105,99,105,97,108,32,70,108,97,118,111,114>>,  \* 'Artificial Flavor'
    <<78,97,116,117,114,97,108,32,67,111,108,111,114>>,  \* 'Natural Color'
    <<>>,  \* ''
    <<32,32,32>>  \* '   '
  }

\* names that are not in the database, which the long lists are drawn from
UnknownNames ==
  {
    <<67,97,110,101,32,83,117,103,97,114>>,  \* 'Cane Sugar'
    <<65,114,116,105,102,105,99,105,97,108,32,70,108,97,118,111,114>>,  \* 'Artificial Flavor'
    <<79,114,103,97,110,105,99,32,81,117,105,110,111,97,32,70,108,97,107,101,115>>  \* 'Organic Quinoa Flakes'
  }

(***************************************************************************)
(* State                                                                   *)
(***************************************************************************)

VARIABLES
  ingredients,        \* parseIngredients: aiResult.ingredients (when an array)
  ingredientsType,    \* parseIngredients: "array", or "undefined" / "null"
                      \*   when aiResult carries no list
  parsedIngredients,  \* parseIngredients: one entry per ingredient processed
  concerns,           \* parseIngredients: the three tallies
  profileAlerts,      \* parseIngredients: the alerts pushed so far
  totalScore,         \* parseIngredients: running sum of scores
  highConcernCount,   \* parseIngredients: ingredients with concern 'high'
  overallScore,       \* parseIngredients: the returned overallScore
  scanId,             \* parseIngredients: the Date.now() of the returned id
  scannedAt,          \* parseIngredients: the instant of the returned scannedAt
  pc,                 \* parseIngredients: "idle", "loop", "done" or "threw"
  now,                \* the system clock, in milliseconds
  previous,           \* what an earlier parseIngredients call returned
  category,           \* getAlternativesForCategory: argument
  originalScore,      \* getAlternativesForCategory: argument
  alternatives,       \* getAlternativesForCategory: outcome of the call
  altPc,              \* getAlternativesForCategory: "idle", "call" or "done"
  rawName,            \* lookupIngredient: argument
  matched,            \* lookupIngredient: what findIngredientMatch returned
  lookup,             \* lookupIngredient: the returned object
  lookupPc,           \* lookupIngredient: "idle", "call" or "done"
  assessName,         \* assessUnknownIngredient: argument
  assessResult,       \* assessUnknownIngredient: the returned object
  assessPc,           \* assessUnknownIngredient: "idle", "call" or "done"
  normName,           \* normalizeIngredient: argument
  normOut,            \* normalizeIngredient: the returned string
  normPc,             \* normalizeIngredient: "idle", "call" or "done"
  database,           \* the ingredientDatabase object as it is in memory
  aliasLists,         \* hiddenSugarNames and hiddenMSGNames as they are in memory
  catalog,            \* the CATEGORY_ALTERNATIVES object as it is in memory
  apiKeys,            \* API_KEYS: the length of each provider's key
  preferredProvider,  \* analyzeWithPreferred: argument
  entryPoint,         \* the exported function the caller invoked
  callPc,             \* analysis call: "idle", "preferred", "label", "loop",
                      \*   "done" or "threw"
  orderedIndex,       \* analyzeIngredientLabel: iterations of the loop done
  attempts,           \* the analyzeWithProvider calls made so far, in order
  passes,             \* what sendToProvider gave the latest of them
  lastError,          \* analyzeIngredientLabel: lastError
  analysisResult,     \* the object the analysis call returned
  thrown              \* the error the analysis call threw

vars ==
  << ingredients, ingredientsType, parsedIngredients, concerns, profileAlerts,
     totalScore, highConcernCount, overallScore, scanId, scannedAt, pc, now,
     previous, category, originalScore, alternatives, altPc, rawName, matched,
     lookup, lookupPc, assessName, assessResult, assessPc, normName, normOut,
     normPc, database, aliasLists, catalog, apiKeys, preferredProvider,
     entryPoint, callPc, orderedIndex, attempts, passes, lastError,
     analysisResult, thrown >>

scoreVars ==
  << ingredients, ingredientsType, parsedIngredients, concerns, profileAlerts,
     totalScore, highConcernCount, overallScore, scanId, scannedAt, pc >>
clockVars == << now, previous >>
altVars == << category, originalScore, alternatives, altPc >>
lookupVars == << rawName, matched, lookup, lookupPc >>
assessVars == << assessName, assessResult, assessPc >>
normVars == << normName, normOut, normPc >>
heapVars == << database, aliasLists, catalog >>
analysisVars ==
  << apiKeys, preferredProvider, entryPoint, callPc, orderedIndex, attempts,
     passes, lastError, analysisResult, thrown >>

\* the value of overallScore before it is assigned
NoScore == -1

\* the value of scanId and scannedAt before they are assigned
NoTime == -1

\* no earlier call has returned
NoResult ==
  [ returned |-> FALSE, input |-> <<>>, id |-> NoTime, overallScore |-> NoScore,
    ingredients |-> <<>>, concerns |-> emptyConcerns, profileAlerts |-> <<>>,
    scannedAt |-> NoTime ]

scoreIdle ==
  /\ ingredients = <<>>
  /\ ingredientsType = "array"
  /\ parsedIngredients = <<>>
  /\ concerns = emptyConcerns
  /\ profileAlerts = <<>>
  /\ totalScore = 0
  /\ highConcernCount = 0
  /\ overallScore = NoScore
  /\ scanId = NoTime
  /\ scannedAt = NoTime
  /\ pc = "idle"

clockIdle ==
  /\ now = 0
  /\ previous = NoResult

altIdle ==
  /\ category = ""
  /\ originalScore = 0
  /\ alternatives = [threw |-> FALSE, bucket |-> "", value |-> <<>>]
  /\ altPc = "idle"

lookupIdle ==
  /\ rawName = <<>>
  /\ matched = NoMatch
  /\ lookup = <<>>
  /\ lookupPc = "idle"

assessIdle ==
  /\ assessName = <<>>
  /\ assessResult = <<>>
  /\ assessPc = "idle"

normIdle ==
  /\ normName = <<>>
  /\ normOut = <<>>
  /\ normPc = "idle"

\* no key is configured and no analysis call has been made
analysisIdle ==
  /\ apiKeys = [openai |-> 0, gemini |-> 0, anthropic |-> 0]
  /\ preferredProvider = "auto"
  /\ entryPoint = ""
  /\ callPc = "idle"
  /\ orderedIndex = 0
  /\ attempts = <<>>
  /\ passes = NoPasses
  /\ lastError = "null"
  /\ analysisResult = NoAnalysis
  /\ thrown = "none"

\* the reference data as the module initialisers of ingredientDatabase.js and
\* aiService leave it
heapLoaded ==
  /\ database = databaseObject
  /\ aliasLists = aliasListObjects
  /\ catalog = CATEGORY_ALTERNATIVES

(***************************************************************************)
(* parseIngredients                                                        *)
(***************************************************************************)

\* longest ingredient list drawn
MaxIngredients == 4

\* the lists of at most n names
RECURSIVE ListsUpTo(_, _)
ListsUpTo(S, n) ==
  IF n = 0 THEN {<<>>}
  ELSE LET shorter == ListsUpTo(S, n - 1)
       IN  shorter \cup {Append(l, x) : l \in shorter, x \in S}

\* what the loop body computes from a database hit alone: the concern tests
\* and the ParsedIngredient
resolveMatched(m, match, ingredientName) ==
  [ m |-> m, match |-> match,
    tests |-> concernTests(match, ingredientName),
    category |-> match.category,
    ingredientData |-> matchedIngredientData(match) ]

\* what the loop body computes from a miss alone: the classifier's answer and
\* the ParsedIngredient
resolveUnknown(m, ingredientName, assessment) ==
  [ m |-> m, match |-> <<>>,
    tests |-> [sugar |-> FALSE, preservatives |-> FALSE, artificial |-> FALSE],
    category |-> assessment.category,
    ingredientData |-> unknownIngredientData(ingredientName, assessment) ]

resolveWith(m, ingredientName) ==
  IF m.found THEN resolveMatched(m, ingredientDatabase[m.rec], ingredientName)
  ELSE resolveUnknown(m, ingredientName, assessUnknownIngredient(ingredientName))

\* everything the loop body computes from one raw name alone
resolveIngredient(ingredientName) ==
  resolveWith(findIngredientMatch(ingredientName), ingredientName)

\* resolveIngredient tabulated once for the elements the lists are drawn from
resolved ==
  [n \in RawNames \cup NonStringElements \cup TallyNames \cup UnknownNames |-> resolveIngredient(n)]

\* variant: an element that is no string is converted to one and processed
coercedToString(ingredientName) == FALSE

\* name.toLowerCase() in normalizeIngredient, the first thing the loop body
\* reaches, is a TypeError when the element is no string
throwsTypeError(ingredientName) == ~isString(ingredientName)

\* the locals of parseIngredients at the start of a call
loopStart ==
  /\ parsedIngredients = <<>>
  /\ concerns = emptyConcerns
  /\ profileAlerts = <<>>
  /\ totalScore = 0
  /\ highConcernCount = 0
  /\ overallScore = NoScore
  /\ scanId = NoTime
  /\ scannedAt = NoTime
  /\ pc = "loop"

\* the locals of a new call
enterLoop ==
  /\ parsedIngredients' = <<>>
  /\ concerns' = emptyConcerns
  /\ profileAlerts' = <<>>
  /\ totalScore' = 0
  /\ highConcernCount' = 0
  /\ overallScore' = NoScore
  /\ scanId' = NoTime
  /\ scannedAt' = NoTime
  /\ pc' = "loop"

InitScore ==
  /\ ingredients \in ListsUpTo(RawNames, MaxIngredients)
  /\ ingredientsType = "array"
  /\ loopStart
  /\ clockIdle
  /\ altIdle
  /\ lookupIdle
  /\ assessIdle
  /\ normIdle
  /\ heapLoaded
  /\ analysisIdle

\* the body of the loop for one ingredient, r being what the name resolves to
ProcessResolved(ingredientName, r) ==
  /\ concerns' = IF r.m.found THEN trackConcerns(concerns, r.match, r.tests)
                 ELSE trackHiddenSugar(concerns, r.category, ingredientName)
  /\ profileAlerts' = IF r.m.found THEN checkProfileAlerts(profileAlerts, r.match)
                      ELSE profileAlerts
  /\ parsedIngredients' = Append(parsedIngredients, r.ingredientData)
  /\ totalScore' = totalScore + r.ingredientData.score
  /\ highConcernCount' = IF r.ingredientData.concern = "high"
                         THEN highConcernCount + 1 ELSE highConcernCount

\* the name the next iteration of the loop processes
nextIngredient == ingredients[Len(parsedIngredients) + 1]

\* the loop has an element left to process
hasNext ==
  /\ pc = "loop"
  /\ ingredientsType = "array"
  /\ Len(parsedIngredients) < Len(ingredients)

\* one iteration of the loop over the ingredients
ProcessIngredient ==
  /\ hasNext
  /\ ~throwsTypeError(nextIngredient)
  /\ ProcessResolved(nextIngredient, resolved[nextIngredient])
  /\ UNCHANGED << ingredients, ingredientsType, overallScore, scanId, scannedAt, pc >>
  /\ UNCHANGED << clockVars, altVars, lookupVars, assessVars, normVars, heapVars, analysisVars >>

\* "Calculate overall score" and return; the id and scannedAt of the result
\* are read off the clock
CalculateOverallScore ==
  /\ pc = "loop"
  /\ ingredientsType = "array"
  /\ Len(parsedIngredients) = Len(ingredients)
  /\ overallScore' =
       bulkConcernPenalty(
         highConcernPenalty(baseScore(totalScore, Len(parsedIngredients)),
                            highConcernCount),
         totalConcernsOf(concerns))
  /\ scanId' = now
  /\ scannedAt' = now
  /\ pc' = "done"
  /\ UNCHANGED << ingredients, ingredientsType, parsedIngredients, concerns,
                  profileAlerts, totalScore, highConcernCount >>
  /\ UNCHANGED << clockVars, altVars, lookupVars, assessVars, normVars, heapVars, analysisVars >>

NextScore == ProcessIngredient \/ CalculateOverallScore

SpecScore == InitScore /\ [][NextScore]_vars

(***************************************************************************)
(* parseIngredients on malformed input                                     *)
(***************************************************************************)

\* longest list with malformed entries drawn
MaxMalformed == 3

InitMalformed ==
  /\ \/ /\ ingredientsType = "array"
        /\ ingredients \in ListsUpTo(MalformedElements, MaxMalformed)
     \/ /\ ingredientsType \in {"undefined", "null"}
        /\ ingredients = <<>>
  /\ loopStart
  /\ clockIdle
  /\ altIdle
  /\ lookupIdle
  /\ assessIdle
  /\ normIdle
  /\ heapLoaded
  /\ analysisIdle

\* the call ends with an exception: nothing is returned
throwFromCall ==
  /\ pc' = "threw"
  /\ UNCHANGED << ingredients, ingredientsType, parsedIngredients, concerns,
                  profileAlerts, totalScore, highConcernCount, overallScore,
                  scanId, scannedAt >>
  /\ UNCHANGED << clockVars, altVars, lookupVars, assessVars, normVars, heapVars, analysisVars >>

\* for (... of ingredients) when aiResult.ingredients is undefined or null:
\* TypeError, the value is not iterable
ThrowNotIterable ==
  /\ pc = "loop"
  /\ ingredientsType # "array"
  /\ throwFromCall

\* the loop body on an element that is no string: the TypeError of
\* name.toLowerCase() leaves the call
ThrowNotAString ==
  /\ hasNext
  /\ throwsTypeError(nextIngredient)
  /\ throwFromCall

NextMalformed ==
  ProcessIngredient \/ CalculateOverallScore \/ ThrowNotIterable \/ ThrowNotAString

SpecMalformed == InitMalformed /\ [][NextMalformed]_vars

(***************************************************************************)
(* parseIngredients called twice on the same list                          *)
(***************************************************************************)

\* longest list scored twice, and the last instant of the clock
MaxRepeatList == 2
MaxClock == 2

\* the object parseIngredients returns (productName, brand and rawText are
\* copied from the argument and are not carried)
productResult ==
  [ returned |-> TRUE, input |-> ingredients, id |-> scanId,
    overallScore |-> overallScore, ingredients |-> parsedIngredients,
    concerns |-> concerns, profileAlerts |-> profileAlerts,
    scannedAt |-> scannedAt ]

InitRepeat ==
  /\ ingredients \in ListsUpTo(RawNames, MaxRepeatList)
  /\ ingredientsType = "array"
  /\ loopStart
  /\ clockIdle
  /\ altIdle
  /\ lookupIdle
  /\ assessIdle
  /\ normIdle
  /\ heapLoaded
  /\ analysisIdle

\* a millisecond passes
Tick ==
  /\ now < MaxClock
  /\ now' = now + 1
  /\ UNCHANGED previous
  /\ UNCHANGED << scoreVars, altVars, lookupVars, assessVars, normVars, heapVars, analysisVars >>

\* the caller keeps the result and calls parseIngredients again with the
\* same argument
ParseAgain ==
  /\ pc = "done"
  /\ ~previous.returned
  /\ previous' = productResult
  /\ enterLoop
  /\ UNCHANGED << ingredients, ingredientsType, now >>
  /\ UNCHANGED << altVars, lookupVars, assessVars, normVars, heapVars, analysisVars >>

NextRepeat == ProcessIngredient \/ CalculateOverallScore \/ Tick \/ ParseAgain

SpecRepeat == InitRepeat /\ [][NextRepeat]_vars

(***************************************************************************)
(* lookupIngredient                                                        *)
(***************************************************************************)

InitLookup ==
  /\ rawName \in MatchQueries
  /\ matched = NoMatch
  /\ lookup = <<>>
  /\ lookupPc = "call"
  /\ scoreIdle
  /\ clockIdle
  /\ altIdle
  /\ assessIdle
  /\ normIdle
  /\ heapLoaded
  /\ analysisIdle

\* the object lookupIngredient returns for the matcher's answer m
lookupResult(m, name) ==
  IF m.found THEN ingredientDatabase[m.rec]
  ELSE unknownIngredientData(name, assessUnknownIngredient(name))

\* the effect of lookupIngredient, m being the matcher's answer
LookupWith(m) ==
  /\ matched' = m
  /\ lookup' = lookupResult(m, rawName)

\* lookupIngredient(name): the matched record, or the classifier's object;
\* the hits of searchIngredients are copies ({...ingredient, matchType}), so
\* nothing is written to the records
LookupIngredient ==
  /\ lookupPc = "call"
  /\ LookupWith(findIngredientMatch(rawName))
  /\ lookupPc' = "done"
  /\ UNCHANGED rawName
  /\ UNCHANGED << scoreVars, clockVars, altVars, assessVars, normVars, heapVars, analysisVars >>

NextLookup == LookupIngredient

SpecLookup == InitLookup /\ [][NextLookup]_vars

(***************************************************************************)
(* getAlternativesForCategory                                              *)
(***************************************************************************)

\* the category strings the ranker is called with: the twelve categories,
\* strings that are no category, and names of inherited properties
CategoryInputs ==
  {PRODUCT_CATEGORIES[i] : i \in 1..Len(PRODUCT_CATEGORIES)}
    \cup {"Cosmetics", "", "beverage", "constructor", "toString", "__proto__"}

\* the original scores the ranker is called with
ScoreInputs == 0..100

InitAlternatives ==
  /\ category \in CategoryInputs
  /\ originalScore \in ScoreInputs
  /\ alternatives = [threw |-> FALSE, bucket |-> "", value |-> <<>>]
  /\ altPc = "call"
  /\ scoreIdle
  /\ clockIdle
  /\ lookupIdle
  /\ assessIdle
  /\ normIdle
  /\ heapLoaded
  /\ analysisIdle

\* the effect of the call on the catalog and the outcome of the call, selected
\* being the array the lookup gave
RankSelected(selected) ==
  /\ alternatives' = rankAlternatives(selected, originalScore)
  /\ catalog' = catalogAfterSort(catalog, selected, originalScore)

GetAlternatives ==
  /\ altPc = "call"
  /\ RankSelected(lookupOrOther(catalog, category))
  /\ altPc' = "done"
  /\ UNCHANGED << category, originalScore, database, aliasLists >>
  /\ UNCHANGED << scoreVars, clockVars, lookupVars, assessVars, normVars, analysisVars >>

NextAlternatives == GetAlternatives

SpecAlternatives == InitAlternatives /\ [][NextAlternatives]_vars

(***************************************************************************)
(* assessUnknownIngredient                                                 *)
(***************************************************************************)

\* the names the classifier is called with
AssessInputs == MatchQueries \cup ClassifierNames

InitAssess ==
  /\ assessName \in AssessInputs
  /\ assessResult = <<>>
  /\ assessPc = "call"
  /\ scoreIdle
  /\ clockIdle
  /\ altIdle
  /\ lookupIdle
  /\ normIdle
  /\ heapLoaded
  /\ analysisIdle

AssessUnknown ==
  /\ assessPc = "call"
  /\ assessResult' = assessUnknownIngredient(assessName)
  /\ assessPc' = "done"
  /\ UNCHANGED assessName
  /\ UNCHANGED << scoreVars, clockVars, altVars, lookupVars, normVars, heapVars, analysisVars >>

NextAssess == AssessUnknown

SpecAssess == InitAssess /\ [][NextAssess]_vars

(***************************************************************************)
(* normalizeIngredient                                                     *)
(***************************************************************************)

\* longest string normalized
MaxLen == 4

\* the characters the strings are built from: 'A', 'b', '7', space, tab,
\* no-break space, '-', '#', capital E acute, and the Kelvin sign
NormAlphabet == {65, 98, 55, 32, 9, 160, 45, 35, 201, 8490}

InitNormalize ==
  /\ normName \in ListsUpTo(NormAlphabet, MaxLen)
  /\ normOut = <<>>
  /\ normPc = "call"
  /\ scoreIdle
  /\ clockIdle
  /\ altIdle
  /\ lookupIdle
  /\ assessIdle
  /\ heapLoaded
  /\ analysisIdle

Normalize ==
  /\ normPc = "call"
  /\ normOut' = normalizeIngredient(normName)
  /\ normPc' = "done"
  /\ UNCHANGED normName
  /\ UNCHANGED << scoreVars, clockVars, altVars, lookupVars, assessVars, heapVars, analysisVars >>

NextNormalize == Normalize

SpecNormalize == InitNormalize /\ [][NextNormalize]_vars

(***************************************************************************)
(* A session of calls                                                      *)
(***************************************************************************)

\* longest list scored in a session
MaxSessionList == 2

\* the arguments of the ranker calls of a session
SessionCategories == {"Beverage", "Frozen", "Cosmetics"}
SessionScores == {0, 80}

InitSession ==
  /\ scoreIdle
  /\ clockIdle
  /\ altIdle
  /\ lookupIdle
  /\ assessIdle
  /\ normIdle
  /\ heapLoaded
  /\ analysisIdle

\* parseIngredients is called with some list
StartParse ==
  /\ pc \in {"idle", "done"}
  /\ ingredients' \in ListsUpTo(SessionNames, MaxSessionList)
  /\ enterLoop
  /\ UNCHANGED ingredientsType
  /\ UNCHANGED << clockVars, altVars, lookupVars, assessVars, normVars, heapVars, analysisVars >>

\* lookupIngredient is called with some name
StartLookup ==
  /\ lookupPc \in {"idle", "done"}
  /\ rawName' \in SessionNames
  /\ matched' = NoMatch
  /\ lookup' = <<>>
  /\ lookupPc' = "call"
  /\ UNCHANGED << scoreVars, clockVars, altVars, assessVars, normVars, heapVars, analysisVars >>

\* getAlternativesForCategory is called with some category and score
StartAlternatives ==
  /\ altPc \in {"idle", "done"}
  /\ category' \in SessionCategories
  /\ originalScore' \in SessionScores
  /\ alternatives' = [threw |-> FALSE, bucket |-> "", value |-> <<>>]
  /\ altPc' = "call"
  /\ UNCHANGED << scoreVars, clockVars, lookupVars, assessVars, normVars, heapVars, analysisVars >>

NextSession ==
  \/ StartParse \/ ProcessIngredient \/ CalculateOverallScore
  \/ StartLookup \/ LookupIngredient
  \/ StartAlternatives \/ GetAlternatives

SpecSession == InitSession /\ [][NextSession]_vars

(***************************************************************************)
(* parseIngredients on short lists of many names and long lists of names   *)
(* that are not in the database                                            *)
(***************************************************************************)

\* longest list drawn from TallyNames, and from UnknownNames
MaxTallyList == 2
MaxUnknownList == 6

InitTally ==
  /\ ingredients \in ListsUpTo(TallyNames, MaxTallyList)
                       \cup ListsUpTo(UnknownNames, MaxUnknownList)
  /\ ingredientsType = "array"
  /\ loopStart
  /\ clockIdle
  /\ altIdle
  /\ lookupIdle
  /\ assessIdle
  /\ normIdle
  /\ heapLoaded
  /\ analysisIdle

SpecTally == InitTally /\ [][NextScore]_vars

(***************************************************************************)
(* analyzeIngredientLabel and analyzeWithPreferred                         *)
(***************************************************************************)

\* the key lengths drawn: no key, a key of 10 characters and one of 11
KeyLengths == {0, 10, 11}

\* what a sendToProvider call can give: an exception (of the request or of
\* parseAIResponse), or the parsed object, of which the productCategory and
\* the productType are carried
ProviderResponses ==
  { [threw |-> TRUE, productCategory |-> Undefined, productType |-> Undefined] }
    \cup { [threw |-> FALSE, productCategory |-> c, productType |-> t] :
             c \in {Undefined, "Supplement", "Snack", "Food"},
             t \in {Undefined, "supplement", "drink", "constructor"} }

InitAnalyze ==
  /\ apiKeys \in [{"openai", "gemini", "anthropic"} -> KeyLengths]
  /\ entryPoint \in {"analyzeIngredientLabel", "analyzeWithPreferred"}
  /\ preferredProvider \in
       IF entryPoint = "analyzeWithPreferred"
       THEN {"auto", "anthropic", "gemini", "openai", "claude"} ELSE {"auto"}
  /\ callPc = IF entryPoint = "analyzeWithPreferred" THEN "preferred" ELSE "label"
  /\ orderedIndex = 0
  /\ attempts = <<>>
  /\ passes = NoPasses
  /\ lastError = "null"
  /\ analysisResult = NoAnalysis
  /\ thrown = "none"
  /\ scoreIdle
  /\ clockIdle
  /\ altIdle
  /\ lookupIdle
  /\ assessIdle
  /\ normIdle
  /\ heapLoaded

\* throw new Error('No AI API keys configured. ...')
throwNoKeys ==
  /\ callPc' = "threw"
  /\ thrown' = "No AI API keys configured"
  /\ UNCHANGED << orderedIndex, attempts, passes, lastError, analysisResult >>

\* one await analyzeWithProvider(provider, ...) made from the place via, the
\* provider answering first and, when asked again, second; r is what the call
\* comes to
logAttempt(provider, via, first, second, r) ==
  /\ attempts' = Append(attempts, [provider |-> provider, via |-> via, failed |-> r.threw])
  /\ passes' = [first |-> first, second |-> IF r.calls = 2 THEN second ELSE NoResponse]

\* return { ...result, provider }
returnResult(provider, r) ==
  /\ analysisResult' = [productCategory |-> r.productCategory, provider |-> provider]
  /\ callPc' = "done"

\* analyzeWithPreferred up to its call of analyzeIngredientLabel
AnalyzeWithPreferred ==
  /\ callPc = "preferred"
  /\ LET providers == getAvailableProviders(apiKeys)
     IN  IF Len(providers) = 0 THEN throwNoKeys
         ELSE IF preferredProvider # "auto" /\ isAvailable(providers, preferredProvider)
         THEN \E first, second \in ProviderResponses :
                LET r == analyzeWithProvider(first, second)
                IN  /\ logAttempt(preferredProvider, "preferred", first, second, r)
                    /\ IF r.threw
                       THEN callPc' = "label" /\ UNCHANGED analysisResult
                       ELSE returnResult(preferredProvider, r)
                    /\ UNCHANGED << orderedIndex, lastError, thrown >>
         ELSE /\ callPc' = "label"
              /\ UNCHANGED << orderedIndex, attempts, passes, lastError,
                              analysisResult, thrown >>
  /\ UNCHANGED << apiKeys, preferredProvider, entryPoint >>
  /\ UNCHANGED << scoreVars, clockVars, altVars, lookupVars, assessVars, normVars, heapVars >>

\* analyzeIngredientLabel up to its loop
AnalyzeIngredientLabel ==
  /\ callPc = "label"
  /\ IF Len(getAvailableProviders(apiKeys)) = 0 THEN throwNoKeys
     ELSE /\ callPc' = "loop"
          /\ orderedIndex' = 0
          /\ lastError' = "null"
          /\ UNCHANGED << attempts, passes, analysisResult, thrown >>
  /\ UNCHANGED << apiKeys, preferredProvider, entryPoint >>
  /\ UNCHANGED << scoreVars, clockVars, altVars, lookupVars, assessVars, normVars, heapVars >>

\* one iteration of the loop over orderedProviders: the try returns the
\* result, the catch keeps the provider's error and goes on
TryProvider ==
  /\ callPc = "loop"
  /\ LET ordered == orderedProviders(getAvailableProviders(apiKeys))
     IN  /\ orderedIndex < Len(ordered)
         /\ \E first, second \in ProviderResponses :
              LET provider == ordered[orderedIndex + 1]
                  r == analyzeWithProvider(first, second)
              IN  /\ logAttempt(provider, "loop", first, second, r)
                  /\ IF r.threw
                     THEN /\ lastError' = provider
                          /\ orderedIndex' = orderedIndex + 1
                          /\ UNCHANGED << callPc, analysisResult >>
                     ELSE /\ returnResult(provider, r)
                          /\ UNCHANGED << orderedIndex, lastError >>
  /\ UNCHANGED << apiKeys, preferredProvider, entryPoint, thrown >>
  /\ UNCHANGED << scoreVars, clockVars, altVars, lookupVars, assessVars, normVars, heapVars >>

\* throw lastError || new Error('All AI providers failed')
ThrowLastError ==
  /\ callPc = "loop"
  /\ orderedIndex = Len(orderedProviders(getAvailableProviders(apiKeys)))
  /\ thrown' = IF lastError # "null" THEN lastError ELSE "All AI providers failed"
  /\ callPc' = "threw"
  /\ UNCHANGED << apiKeys, preferredProvider, entryPoint, orderedIndex, attempts,
                  passes, lastError, analysisResult >>
  /\ UNCHANGED << scoreVars, clockVars, altVars, lookupVars, assessVars, normVars, heapVars >>

NextAnalyze ==
  AnalyzeWithPreferred \/ AnalyzeIngredientLabel \/ TryProvider \/ ThrowLastError

SpecAnalyze == InitAnalyze /\ [][NextAnalyze]_vars

(***************************************************************************)
(* Properties                                                              *)
(***************************************************************************)

RECURSIVE SumOfScores(_)
SumOfScores(list) ==
  IF list = <<>> THEN 0 ELSE list[1].score + SumOfScores(Tail(list))

HighConcernIngredients == {i \in 1..Len(parsedIngredients) : parsedIngredients[i].concern = "high"}

TotalConcernCount == concerns.sugar.count + concerns.preservatives.count + concerns.artificial.count

\* the penalties of the closed formula: 8 per high-concern ingredient, and 10
\* when the total concern count is strictly above 5
PenaltySum == 8 * Cardinality(HighConcernIngredients) + (IF TotalConcernCount > 5 THEN 10 ELSE 0)

\* b is the average of the ingredient scores rounded to the nearest integer,
\* a half rounding up
IsRoundedAverage(b) ==
  LET n == Len(parsedIngredients)
      s == SumOfScores(parsedIngredients)
  IN  2 * n * b <= 2 * s + n /\ 2 * s + n < 2 * n * (b + 1)

\* C1: the overallScore returned by parseIngredients is an integer between 5
\* and 100, whatever the ingredient list
C1_ScoreFloor == pc = "done" => overallScore \in 5..100

\* a list whose penalised average falls below the floor has been scored
C1_Witness ==
  /\ pc = "done"
  /\ Len(ingredients) > 0
  /\ \E b \in 0..100 : IsRoundedAverage(b) /\ b - PenaltySum < 5
  /\ overallScore = 5

\* C2: for a non-empty list, overallScore = max(5, base - 8*h - b) with base
\* the rounded average, h the number of high-concern ingredients and b = 10
\* exactly when the total concern count exceeds 5
C2_ClosedFormula ==
  pc = "done" /\ Len(ingredients) > 0 =>
    \E b \in 0..100 :
      /\ IsRoundedAverage(b)
      /\ overallScore = (IF b - PenaltySum >= 5 THEN b - PenaltySum ELSE 5)

\* a list on which the first clamp acts and the bulk penalty applies as well
C2_Witness ==
  /\ pc = "done"
  /\ TotalConcernCount > 5
  /\ \E b \in 0..100 : IsRoundedAverage(b) /\ b - 8 * Cardinality(HighConcernIngredients) < 5

\* a list whose total concern count is exactly 5 has been scored
C2_WitnessBoundary ==
  pc = "done" /\ TotalConcernCount = 5

ScenarioList ==
  << <<83,111,100,105,117,109,32,78,105,116,114,105,116,101>>,  \* 'Sodium Nitrite'
     <<72,105,103,104,32,70,114,117,99,116,111,115,101,32,67,111,114,110,32,83,121,114,117,112>>,  \* 'High Fructose Corn Syrup'
     <<67,105,116,114,105,99,32,65,99,105,100>> >>  \* 'Citric Acid'

\* C3 as stated: the scenario list has a high-concern penalty of 8, tallies
\* sugar = 1 and preservatives = 1, and a final score of 40
C3_Original ==
  pc = "done" /\ ingredients = ScenarioList =>
    /\ SumOfScores(parsedIngredients) = 145
    /\ 8 * highConcernCount = 8
    /\ concerns.sugar.count = 1
    /\ concerns.preservatives.count = 1
    /\ overallScore = 40

\* C3 (amended): the scenario list has scores 25, 30, 90 (base 48), two
\* high-concern ingredients (penalty 16), tallies sugar = 1, preservatives = 2
\* and artificial = 0 (total 3, no bulk penalty), and a final score of 32
C3_Scenario ==
  pc = "done" /\ ingredients = ScenarioList =>
    /\ [i \in 1..3 |-> parsedIngredients[i].score] = <<25, 30, 90>>
    /\ [i \in 1..3 |-> parsedIngredients[i].concern] = <<"high", "high", "low">>
    /\ IsRoundedAverage(48)
    /\ 8 * Cardinality(HighConcernIngredients) = 16
    /\ concerns.sugar.count = 1
    /\ concerns.preservatives.count = 2
    /\ concerns.artificial.count = 0
    /\ overallScore = 32

C3_Witness == pc = "done" /\ ingredients = ScenarioList

\* the candidate list the claim's category c is locked to
BucketOf(c) ==
  IF \E i \in 1..Len(PRODUCT_CATEGORIES) : PRODUCT_CATEGORIES[i] = c
  THEN CATEGORY_ALTERNATIVES[c] ELSE CATEGORY_ALTERNATIVES["Other"]

\* the returned element e is the catalog entry c
IsEntry(e, c) ==
  /\ e.name = c.name /\ e.brand = c.brand /\ e.score = c.score
  /\ e.price = c.price /\ e.stores = c.stores /\ e.highlights = c.highlights

\* C4: every returned alternative scores strictly above originalScore, so
\* its improvement is score - originalScore and at least 1
C4_StrictImprovement ==
  altPc = "done" =>
    \A i \in 1..Len(alternatives.value) :
      LET e == alternatives.value[i]
      IN  /\ e.score > originalScore
          /\ e.improvement = e.score - originalScore
          /\ e.improvement >= 1

\* a call that returned something and left out a candidate scoring exactly
\* originalScore
C4_Witness ==
  /\ altPc = "done"
  /\ Len(alternatives.value) > 0
  /\ \E k \in 1..Len(BucketOf(category)) : BucketOf(category)[k].score = originalScore

\* C5: every returned alternative is an entry of the category's own list (of
\* the 'Other' list when the category has none) and of no other list
C5_CategoryLock ==
  altPc = "done" =>
    \A i \in 1..Len(alternatives.value) :
      LET e == alternatives.value[i]
          own == IF \E k \in 1..Len(PRODUCT_CATEGORIES) : PRODUCT_CATEGORIES[k] = category
                 THEN category ELSE "Other"
      IN  /\ e.id \in 1..Len(CATEGORY_ALTERNATIVES[own])
          /\ IsEntry(e, CATEGORY_ALTERNATIVES[own][e.id])
          /\ \A d \in DOMAIN CATEGORY_ALTERNATIVES \ {own} :
               \A k \in 1..Len(CATEGORY_ALTERNATIVES[d]) :
                 ~IsEntry(e, CATEGORY_ALTERNATIVES[d][k])

\* calls that returned candidates, for a category with a list of its own and
\* for a string that is no category
C5_Witness ==
  /\ altPc = "done"
  /\ category = "Supplement"
  /\ Len(alternatives.value) > 1

C5_WitnessFallback ==
  /\ altPc = "done"
  /\ category = "Cosmetics"
  /\ Len(alternatives.value) > 0

\* C6: for a category string that is none of the twelve categories the call
\* does not throw and returns what the 'Other' list gives
C6_FallbackNeverThrows ==
  altPc = "done" /\ ~(\E k \in 1..Len(PRODUCT_CATEGORIES) : PRODUCT_CATEGORIES[k] = category) =>
    /\ ~alternatives.threw
    /\ \A i \in 1..Len(alternatives.value) :
         IsEntry(alternatives.value[i], CATEGORY_ALTERNATIVES["Other"][alternatives.value[i].id])
    /\ Len(alternatives.value) =
         Cardinality({k \in 1..Len(CATEGORY_ALTERNATIVES["Other"]) :
                        CATEGORY_ALTERNATIVES["Other"][k].score > originalScore})

\* the number of alerts pushed so far whose profile is p
AlertsOf(p) == Cardinality({i \in 1..Len(profileAlerts) : profileAlerts[i].profile = p})

\* the database record the matcher gave the i-th ingredient (found only)
RecordOfIngredient(i) == resolved[ingredients[i]].match

\* C7: profileAlerts holds at most one entry per alert type
C7_AlertDeduplication ==
  /\ AlertsOf(profile_Kids) <= 1
  /\ AlertsOf(profile_HeartHealth) <= 1
  /\ AlertsOf(profile_Diabetic) <= 1
  /\ Len(profileAlerts) = AlertsOf(profile_Kids) + AlertsOf(profile_HeartHealth) + AlertsOf(profile_Diabetic)

\* a list with two different kid-alert records and two heart-alert records
\* has been processed
C7_Witness ==
  /\ pc = "done"
  /\ \E i, j \in 1..Len(ingredients) :
       /\ i < j
       /\ parsedIngredients[i].foundInDatabase /\ parsedIngredients[j].foundInDatabase
       /\ parsedIngredients[i].id # parsedIngredients[j].id
       /\ RecordOfIngredient(i).kidAlert /\ RecordOfIngredient(j).kidAlert
       /\ RecordOfIngredient(i).heartHealthAlert /\ RecordOfIngredient(j).heartHealthAlert
  /\ AlertsOf(profile_Kids) = 1

PraguePowder1 == <<80,114,97,103,117,101,32,80,111,119,100,101,114,32,35,49>>  \* 'Prague Powder #1'

\* C8: 'Prague Powder #1' resolves to the sodium-nitrite record (score 25,
\* concern high) through an alias, and is marked as found in the database
C8_PraguePowder ==
  \A i \in 1..Len(parsedIngredients) :
    ingredients[i] = PraguePowder1 =>
      /\ resolved[PraguePowder1].m.found
      /\ resolved[PraguePowder1].m.step \in {"search-hidden", "alias"}
      /\ ingredientDatabase[resolved[PraguePowder1].m.rec].key = "sodium-nitrite"
      /\ parsedIngredients[i].foundInDatabase
      /\ parsedIngredients[i].id = <<115,111,100,105,117,109,45,110,105,116,114,105,116,101>>
      /\ parsedIngredients[i].name = <<83,111,100,105,117,109,32,78,105,116,114,105,116,101>>
      /\ parsedIngredients[i].score = 25
      /\ parsedIngredients[i].concern = "high"

C8_Witness ==
  /\ pc = "done"
  /\ \E i \in 1..Len(ingredients) : ingredients[i] = PraguePowder1

\* record j's normalized name contains the normalized raw name
NameContains(j, raw) ==
  includes(normalizeIngredient(ingredientDatabase[j].name), normalizeIngredient(raw))

\* record j's lowercased name, or one of its lowercased aliases, contains the
\* lowercased and trimmed raw name
SearchNameContains(j, raw) ==
  includes(toLowerCase(ingredientDatabase[j].name), trim(toLowerCase(raw)))

SearchAliasContains(j, raw) ==
  \E h \in 1..Len(ingredientDatabase[j].hiddenNames) :
    includes(toLowerCase(ingredientDatabase[j].hiddenNames[h]), trim(toLowerCase(raw)))

First(S) == CHOOSE i \in S : \A j \in S : i <= j

\* C9 as stated: whenever some record's normalized name contains the
\* normalized raw name, the first such record is returned
C9_Original ==
  lookupPc = "done" =>
    LET S == {j \in 1..Len(ingredientDatabase) : NameContains(j, rawName)}
    IN  S # {} => matched.found /\ matched.rec = First(S)

\* C9 (amended): aliases are consulted record by record together with the
\* names: whenever some record's lowercased name or alias contains the
\* lowercased, trimmed raw name, the first such record is returned, also when
\* it qualifies by an alias only and a later record qualifies by its name
C9_AliasesInterleaved ==
  lookupPc = "done" =>
    LET S == {j \in 1..Len(ingredientDatabase) : SearchNameContains(j, rawName) \/ SearchAliasContains(j, rawName)}
    IN  S # {} => matched.found /\ matched.rec = First(S)

\* a lookup returned a record by its alias although a later record's name
\* contains the raw name
C9_Witness ==
  /\ lookupPc = "done"
  /\ matched.found
  /\ ~SearchNameContains(matched.rec, rawName)
  /\ SearchAliasContains(matched.rec, rawName)
  /\ \E j \in (matched.rec + 1)..Len(ingredientDatabase) : SearchNameContains(j, rawName)

\* record j passes the test named step for the raw name
SatisfiesStep(j, step, raw) ==
  LET normalized == normalizeIngredient(raw)
      dbNormalized == normalizeIngredient(ingredientDatabase[j].name)
  IN  CASE step = "search-name" -> SearchNameContains(j, raw)
        [] step = "search-hidden" -> SearchAliasContains(j, raw)
        [] step = "exact" -> normalized = dbNormalized
        [] step = "partial" ->
             includes(normalized, dbNormalized) \/ includes(dbNormalized, normalized)
        [] step = "alias" ->
             \E h \in 1..Len(ingredientDatabase[j].hiddenNames) :
               LET a == normalizeIngredient(ingredientDatabase[j].hiddenNames[h])
               IN  includes(normalized, a) \/ includes(a, normalized)
        [] OTHER -> FALSE

\* C10: the record returned is the first one, in the order of the combined
\* table, that passes the test which produced the hit
C10_FirstInTableOrder ==
  lookupPc = "done" /\ matched.found =>
    /\ SatisfiesStep(matched.rec, matched.step, rawName)
    /\ \A j \in 1..(matched.rec - 1) : ~SatisfiesStep(j, matched.step, rawName)

\* a lookup in which a later record passes the same test as the one returned
C10_Witness ==
  /\ lookupPc = "done"
  /\ matched.found
  /\ \E j \in (matched.rec + 1)..Len(ingredientDatabase) : SatisfiesStep(j, matched.step, rawName)


\* name, lowercased, contains an entry of list, lowercased
ContainsAnyOf(list, name) ==
  \E i \in DOMAIN list : includes(toLowerCase(name), toLowerCase(list[i]))

RedKeywords == << <<97,114,116,105,102,105,99,105,97,108>>, <<115,121,110,116,104,101,116,105,99>>, <<104,121,100,114,111,103,101,110,97,116,101,100>>, <<109,111,100,105,102,105,101,100>> >>
YellowKeywords == << <<102,108,97,118,111,114>>, <<99,111,108,111,114>>, <<100,121,101>>, <<112,114,101,115,101,114,118,97,116,105,118,101>> >>
GreenKeywords == << <<111,114,103,97,110,105,99>>, <<110,97,116,117,114,97,108>>, <<118,105,116,97,109,105,110>>, <<109,105,110,101,114,97,108>>, <<119,97,116,101,114>>, <<115,97,108,116>>, <<115,112,105,99,101>> >>

\* the classifier's rules in their documented order: hidden sugar, MSG
\* (always), MSG (often), red flag, yellow flag, green flag, default
RuleHolds(k, name) ==
  CASE k = 1 -> ContainsAnyOf(hiddenSugarNames, name)
    [] k = 2 -> ContainsAnyOf(alwaysContainsMSG, name)
    [] k = 3 -> ContainsAnyOf(oftenContainsMSG, name)
    [] k = 4 -> ContainsAnyOf(RedKeywords, name)
    [] k = 5 -> ContainsAnyOf(YellowKeywords, name)
    [] k = 6 -> ContainsAnyOf(GreenKeywords, name)
    [] OTHER -> TRUE

\* the documented score, concern and category of each rule
DocumentedTuples ==
  << [score |-> 30, concern |-> "moderate", category |-> <<72,105,100,100,101,110,32,83,117,103,97,114>>],  \* 'Hidden Sugar'
     [score |-> 50, concern |-> "moderate", category |-> <<70,108,97,118,111,114,32,69,110,104,97,110,99,101,114>>],  \* 'Flavor Enhancer'
     [score |-> 60, concern |-> "moderate", category |-> <<70,108,97,118,111,114,32,69,110,104,97,110,99,101,114>>],  \* 'Flavor Enhancer'
     [score |-> 40, concern |-> "moderate", category |-> <<80,114,111,99,101,115,115,101,100,32,65,100,100,105,116,105,118,101>>],  \* 'Processed Additive'
     [score |-> 50, concern |-> "moderate", category |-> <<65,100,100,105,116,105,118,101>>],  \* 'Additive'
     [score |-> 80, concern |-> "low", category |-> <<78,97,116,117,114,97,108,32,73,110,103,114,101,100,105,101,110,116>>],  \* 'Natural Ingredient'
     [score |-> 70, concern |-> "low", category |-> <<73,110,103,114,101,100,105,101,110,116>>] >>  \* 'Ingredient'

\* the first rule, in the documented order, that the name satisfies
FirstRule(name) == First({k \in 1..7 : RuleHolds(k, name)})

\* C11: assessUnknownIngredient returns the score, concern and category of
\* the first rule, in the order hidden sugar, MSG always, MSG often, red,
\* yellow, green, default, that the name satisfies
C11_FirstRuleWins ==
  assessPc = "done" =>
    LET t == DocumentedTuples[FirstRule(assessName)]
    IN  /\ assessResult.score = t.score
        /\ assessResult.concern = t.concern
        /\ assessResult.category = t.category

\* the classifier answered for a name that holds a hidden-sugar entry and a
\* green keyword as well
C11_Witness ==
  /\ assessPc = "done"
  /\ RuleHolds(1, assessName)
  /\ RuleHolds(6, assessName)
  /\ assessResult.score = 30


OrganicQuinoaFlakes == <<79,114,103,97,110,105,99,32,81,117,105,110,111,97,32,70,108,97,107,101,115>>  \* 'Organic Quinoa Flakes'

\* no record passes any test of the matcher for 'Organic Quinoa Flakes'
QuinoaFlakesMatchNothing ==
  \A j \in 1..Len(ingredientDatabase) :
    \A step \in {"search-name", "search-hidden", "exact", "partial", "alias"} :
      ~SatisfiesStep(j, step, OrganicQuinoaFlakes)

\* C12: 'Organic Quinoa Flakes' matches no database record by any test, and
\* its ParsedIngredient is the green-flag answer: score 80, concern low,
\* category 'Natural Ingredient', foundInDatabase false
C12_OrganicQuinoaFlakes ==
  \A i \in 1..Len(parsedIngredients) :
    ingredients[i] = OrganicQuinoaFlakes =>
      /\ QuinoaFlakesMatchNothing
      /\ ~resolved[OrganicQuinoaFlakes].m.found
      /\ ~parsedIngredients[i].foundInDatabase
      /\ parsedIngredients[i].name = OrganicQuinoaFlakes
      /\ parsedIngredients[i].score = 80
      /\ parsedIngredients[i].concern = "low"
      /\ parsedIngredients[i].category = <<78,97,116,117,114,97,108,32,73,110,103,114,101,100,105,101,110,116>>  \* 'Natural Ingredient'

\* a list holding 'Organic Quinoa Flakes' has been scored
C12_Witness ==
  /\ pc = "done"
  /\ \E i \in 1..Len(ingredients) : ingredients[i] = OrganicQuinoaFlakes


\* C13: on an empty ingredient list parseIngredients does not throw and
\* returns overallScore 50, no ParsedIngredient, three tallies with count 0
\* and no names, and no profile alert
C13_EmptyList ==
  ingredientsType = "array" /\ ingredients = <<>> =>
    /\ pc # "threw"
    /\ pc = "done" =>
         /\ overallScore = 50
         /\ parsedIngredients = <<>>
         /\ \A t \in {concerns.sugar, concerns.preservatives, concerns.artificial} :
              t.count = 0 /\ t.names = <<>>
         /\ profileAlerts = <<>>

\* the empty list has been scored
C13_Witness ==
  /\ pc = "done"
  /\ ingredientsType = "array"
  /\ ingredients = <<>>


\* C14: normalizeIngredient is idempotent, and its result holds only the
\* characters a-z, 0-9 and single interior spaces
C14_Idempotent ==
  normPc = "done" =>
    /\ normalizeIngredient(normOut) = normOut
    /\ \A i \in 1..Len(normOut) :
         normOut[i] \in (97..122) \cup (48..57) \cup {32}
    /\ normOut # <<>> => normOut[1] # 32 /\ normOut[Len(normOut)] # 32
    /\ \A i \in 1..(Len(normOut) - 1) : ~(normOut[i] = 32 /\ normOut[i + 1] = 32)

\* a string with a capital, a stripped symbol next to whitespace and a run of
\* whitespace has been normalized to a string with an interior space
C14_Witness ==
  /\ normPc = "done"
  /\ \E i \in 1..Len(normName) : normName[i] \in {65, 201, 8490}
  /\ \E i \in 1..(Len(normName) - 1) :
       normName[i] \in WhiteSpace /\ normName[i + 1] \in WhiteSpace \cup {45, 35}
  /\ \E i \in 2..(Len(normOut) - 1) : normOut[i] = 32


\* C15: two parseIngredients calls with the same argument, made at different
\* times, return objects that agree in every field
C15_Deterministic ==
  pc = "done" /\ previous.returned /\ previous.input = ingredients =>
    productResult = previous


\* C16: the returned list is in non-increasing order of improvement, entries
\* of equal improvement stand in catalog order, and for 'Supplement' and 40
\* the list is the three Supplement candidates, all above 40, best first
C16_SortedByImprovement ==
  altPc = "done" =>
    LET v == alternatives.value
    IN  /\ \A i, j \in 1..Len(v) :
             i < j =>
               /\ v[i].score - originalScore >= v[j].score - originalScore
               /\ v[i].improvement >= v[j].improvement
               /\ v[i].improvement = v[j].improvement => v[i].id < v[j].id
        /\ category = "Supplement" /\ originalScore = 40 =>
             /\ [i \in 1..Len(v) |-> v[i].name] =
                  << "Methylated B-Complex", "Chelated Magnesium Glycinate",
                     "Whole Food Multivitamin" >>
             /\ [i \in 1..Len(v) |-> v[i].improvement] = << 52, 50, 42 >>

\* the ranker was called for 'Supplement' and 40 and returned three entries
C16_Witness ==
  /\ altPc = "done"
  /\ category = "Supplement"
  /\ originalScore = 40
  /\ Len(alternatives.value) = 3

\* a call whose result is in another order than the catalog's
C16_WitnessReordered ==
  /\ altPc = "done"
  /\ \E i, j \in 1..Len(alternatives.value) :
       i < j /\ alternatives.value[i].id > alternatives.value[j].id


Recognized == {PRODUCT_CATEGORIES[i] : i \in 1..Len(PRODUCT_CATEGORIES)}

\* C17: what the ranker returns for a string that is no category differs
\* from what it returns, at the same score, for a category whose candidates
\* are all filtered out, and from what a direct query of 'Other' returns
C17_Distinguishable ==
  altPc = "done" /\ ~alternatives.threw /\ category \notin Recognized =>
    /\ \A c \in Recognized :
         getAlternativesForCategory(c, originalScore).value = <<>> =>
           alternatives.value # <<>>
    /\ alternatives.value # getAlternativesForCategory("Other", originalScore).value


\* the argument carries a list and every element of it is a string
WellFormedList ==
  /\ ingredientsType = "array"
  /\ \A i \in 1..Len(ingredients) : isString(ingredients[i])

\* C18: on a list of strings the call never throws and runs to a result with
\* one entry per element; on a missing list or a list holding an element that
\* is no string the call returns no result and ends with an exception, and no
\* ParsedIngredient is ever made of an element that is no string
C18_AllOrNothing ==
  /\ pc = "loop" => ENABLED NextMalformed
  /\ WellFormedList => pc # "threw"
  /\ pc = "done" => WellFormedList /\ Len(parsedIngredients) = Len(ingredients)
  /\ ~WellFormedList => pc \in {"loop", "threw"} /\ overallScore = NoScore
  /\ \A i \in 1..Len(parsedIngredients) : isString(parsedIngredients[i].name)

\* a call was left by an exception after some elements had been processed
C18_Witness ==
  /\ pc = "threw"
  /\ ingredientsType = "array"
  /\ Len(parsedIngredients) >= 1
  /\ overallScore = NoScore

\* a call on a missing list was left by an exception
C18_WitnessMissingList ==
  /\ pc = "threw"
  /\ ingredientsType = "undefined"


CatalogFields == {"name", "brand", "score", "price", "stores", "highlights"}
DerivedFields == {"id", "improvement", "priceLevel", "budgetPick"}

matcherAnswer == [n \in RawNames |-> findIngredientMatch(n)]
classifierAnswer == [n \in RawNames |-> assessUnknownIngredient(n)]

\* C20: parsedIngredients holds one entry per element processed, in input
\* order; an entry is marked foundInDatabase exactly when the matcher returned
\* a record for its element and then carries that record's data, and carries
\* the classifier's answer for the raw name otherwise
C20_OnePerElement ==
  /\ Len(parsedIngredients) <= Len(ingredients)
  /\ pc = "done" => Len(parsedIngredients) = Len(ingredients)
  /\ \A i \in 1..Len(parsedIngredients) :
       LET p == parsedIngredients[i]
           m == matcherAnswer[ingredients[i]]
       IN  /\ p.foundInDatabase = m.found
           /\ m.found =>
                /\ p.id = ingredientDatabase[m.rec].id
                /\ p.name = ingredientDatabase[m.rec].name
                /\ p.score = ingredientDatabase[m.rec].score
                /\ p.concern = ingredientDatabase[m.rec].concern
                /\ p.category = ingredientDatabase[m.rec].category
                /\ p.note = NoNote
           /\ ~m.found =>
                /\ p.name = ingredients[i]
                /\ p.score = classifierAnswer[ingredients[i]].score
                /\ p.concern = classifierAnswer[ingredients[i]].concern
                /\ p.category = classifierAnswer[ingredients[i]].category

\* a list that names an element twice and holds both a hit and a miss has
\* been scored
C20_Witness ==
  /\ pc = "done"
  /\ \E i, j \in 1..Len(ingredients) : i < j /\ ingredients[i] = ingredients[j]
  /\ \E i \in 1..Len(ingredients) : matcherAnswer[ingredients[i]].found
  /\ \E i \in 1..Len(ingredients) : ~matcherAnswer[ingredients[i]].found


(***************************************************************************)
(* Properties of the tallies, the alerts and the unknown-ingredient path   *)
(***************************************************************************)

\* the loop body has just processed element k of the list
Processed(k) ==
  /\ Len(parsedIngredients) = k - 1
  /\ Len(parsedIngredients') = k

\* 1 when the condition holds and 0 otherwise
Indicator(b) == IF b THEN 1 ELSE 0

\* the raw name contains an entry of hiddenSugarNames, letter case aside
ContainsHiddenSugarEntry(raw) ==
  \E e \in 1..Len(hiddenSugarNames) :
    includes(toLowerCase(raw), toLowerCase(hiddenSugarNames[e]))

\* the category text contains the word, letter case aside
CategoryContains(entry, word) == includes(toLowerCase(entry.category), word)

\* C21: processing a database-matched ingredient raises concerns.sugar.count
\* by one iff the record's category contains 'sweetener' or the raw name
\* contains a hidden-sugar entry, concerns.preservatives.count by one iff the
\* category contains 'preservative', concerns.artificial.count by one iff the
\* category contains 'artificial' or 'color'; each count rises by one or not
\* at all, and the three tests are independent of each other
C21_TallyTests ==
  [][ \A k \in 1..Len(ingredients) :
        Processed(k) /\ parsedIngredients'[k].foundInDatabase =>
          LET entry == parsedIngredients'[k]
          IN  /\ concerns'.sugar.count = concerns.sugar.count
                   + Indicator(CategoryContains(entry, str_sweetener)
                               \/ ContainsHiddenSugarEntry(ingredients[k]))
              /\ concerns'.preservatives.count = concerns.preservatives.count
                   + Indicator(CategoryContains(entry, str_preservative))
              /\ concerns'.artificial.count = concerns.artificial.count
                   + Indicator(CategoryContains(entry, str_artificial)
                               \/ CategoryContains(entry, str_color)) ]_vars

\* 'Caramel Color' alone has been scored: its record's category 'Color' holds
\* no 'sweetener', its raw name holds the hidden-sugar entry 'caramel', and it
\* is counted once under sugar and once under artificial
C21_Witness ==
  /\ pc = "done"
  /\ ingredients = << <<67,97,114,97,109,101,108,32,67,111,108,111,114>> >>
  /\ parsedIngredients[1].foundInDatabase
  /\ ~CategoryContains(parsedIngredients[1], str_sweetener)
  /\ concerns.sugar.count = 1
  /\ concerns.preservatives.count = 0
  /\ concerns.artificial.count = 1


\* C22: processing an ingredient the matcher did not find leaves
\* concerns.preservatives, concerns.artificial and profileAlerts as they were;
\* concerns.sugar gets count + 1 and the raw name appended when the
\* classifier's category is exactly 'Hidden Sugar' and is left as it was
\* otherwise, so a name classified 'Processed Additive' or 'Additive' changes
\* no tally
C22_UnknownFrame ==
  [][ \A k \in 1..Len(ingredients) :
        Processed(k) /\ ~parsedIngredients'[k].foundInDatabase =>
          /\ concerns'.preservatives = concerns.preservatives
          /\ concerns'.artificial = concerns.artificial
          /\ profileAlerts' = profileAlerts
          /\ concerns'.sugar =
               IF parsedIngredients'[k].category = cat_HiddenSugar
               THEN [ count |-> concerns.sugar.count + 1,
                      names |-> Append(concerns.sugar.names, ingredients[k]) ]
               ELSE concerns.sugar ]_vars

\* 'Cane Sugar', 'Artificial Flavor' has been scored: neither is found, the
\* first is classified 'Hidden Sugar' and counted under sugar by its raw
\* name, the second is classified 'Processed Additive' and counted nowhere
C22_Witness ==
  /\ pc = "done"
  /\ ingredients = << <<67,97,110,101,32,83,117,103,97,114>>, <<65,114,116,105,102,105,99,105,97,108,32,70,108,97,118,111,114>> >>
  /\ ~parsedIngredients[1].foundInDatabase
  /\ ~parsedIngredients[2].foundInDatabase
  /\ parsedIngredients[1].category = cat_HiddenSugar
  /\ parsedIngredients[2].category = cat_ProcessedAdditive
  /\ concerns.sugar = [count |-> 1, names |-> << <<67,97,110,101,32,83,117,103,97,114>> >>]
  /\ concerns.artificial.count = 0


AlertTypes == {"kid", "heart", "diabetic"}

\* the i-th ingredient was found and its record has the flag of alert type t
HasFlag(i, t) ==
  /\ parsedIngredients[i].foundInDatabase
  /\ CASE t = "kid" -> RecordOfIngredient(i).kidAlert
       [] t = "heart" -> RecordOfIngredient(i).heartHealthAlert
       [] t = "diabetic" -> RecordOfIngredient(i).diabeticAlert

\* the profile and the end of the message of the alert of type t
ProfileOf(t) ==
  CASE t = "kid" -> profile_Kids
    [] t = "heart" -> profile_HeartHealth
    [] t = "diabetic" -> profile_Diabetic

MessageEndOf(t) ==
  CASE t = "kid" -> msg_kid
    [] t = "heart" -> msg_heart
    [] t = "diabetic" -> msg_diabetic

\* C23: after any number of iterations, for each alert type, when no
\* processed ingredient has the flag there is no alert of the type, and
\* otherwise there is exactly one, and its message is 'Contains <name> - ...'
\* with the canonical name of the first processed ingredient that has the
\* flag: ingredients processed later leave it as it is
C23_FirstOccurrenceWins ==
  \A t \in AlertTypes :
    LET flagged == {i \in 1..Len(parsedIngredients) : HasFlag(i, t)}
        kept == {a \in 1..Len(profileAlerts) : profileAlerts[a].profile = ProfileOf(t)}
    IN  IF flagged = {} THEN kept = {}
        ELSE LET first == CHOOSE i \in flagged : \A j \in flagged : i <= j
             IN  \E a \in kept :
                   /\ kept = {a}
                   /\ profileAlerts[a].message =
                        msg_Contains \o RecordOfIngredient(first).name \o MessageEndOf(t)

\* 'Prague Powder #1', 'High Fructose Corn Syrup' has been scored: both
\* records have the kid flag, and the kid alert names 'Sodium Nitrite', the
\* canonical name of the first, not the raw name and not the second
C23_Witness ==
  /\ pc = "done"
  /\ ingredients = << <<80,114,97,103,117,101,32,80,111,119,100,101,114,32,35,49>>, <<72,105,103,104,32,70,114,117,99,116,111,115,101,32,67,111,114,110,32,83,121,114,117,112>> >>
  /\ HasFlag(1, "kid") /\ HasFlag(2, "kid")
  /\ parsedIngredients[1].name # ingredients[1]
  /\ parsedIngredients[1].name # parsedIngredients[2].name
  /\ \E a \in 1..Len(profileAlerts) :
       /\ profileAlerts[a].profile = profile_Kids
       /\ profileAlerts[a].message = msg_Contains \o <<83,111,100,105,117,109,32,78,105,116,114,105,116,101>> \o msg_kid


\* the price of a returned alternative as parseFloat reads it
ParsedPrice(e) == parseFloat(stripPrice(e.price))

\* C24: for every returned alternative, priceLevel is 'budget' iff budgetPick
\* is true, 'moderate' iff the parsed price is above 4 and at most 7, and
\* 'high' iff the parsed price is above 7
C24_PriceFieldsAgree ==
  altPc = "done" =>
    \A i \in 1..Len(alternatives.value) :
      LET e == alternatives.value[i]
          p == ParsedPrice(e)
      IN  /\ e.priceLevel = "budget" <=> e.budgetPick
          /\ e.priceLevel = "moderate" <=> numGt(p, 4) /\ numLe(p, 7)
          /\ e.priceLevel = "high" <=> numGt(p, 7)


\* the processed ingredients the matcher did not find
UnmatchedIngredients ==
  {i \in 1..Len(parsedIngredients) : ~parsedIngredients[i].foundInDatabase}

\* C25: an ingredient the matcher did not find never has concern 'high', so
\* highConcernCount counts database hits only; and a non-empty list of which
\* no ingredient was found gets the rounded average of the classifier's
\* scores, less 10 when the bulk penalty applies and less nothing otherwise,
\* which is at least 20
C25_UnknownNeverHigh ==
  /\ \A i \in UnmatchedIngredients : parsedIngredients[i].concern \in {"moderate", "low"}
  /\ highConcernCount =
       Cardinality({i \in 1..Len(parsedIngredients) :
                      parsedIngredients[i].foundInDatabase
                      /\ parsedIngredients[i].concern = "high"})
  /\ pc = "done" /\ Len(ingredients) > 0
       /\ UnmatchedIngredients = 1..Len(parsedIngredients) =>
         /\ \E b \in 0..100 :
              /\ IsRoundedAverage(b)
              /\ overallScore = b - (IF TotalConcernCount > 5 THEN 10 ELSE 0)
         /\ overallScore >= 20

\* a list of six names that are not in the database, all hidden sugars, has
\* been scored: the bulk penalty applies and overallScore is 20
C25_Witness ==
  /\ pc = "done"
  /\ Len(ingredients) = 6
  /\ UnmatchedIngredients = 1..6
  /\ TotalConcernCount > 5
  /\ overallScore = 20


\* C26: after any number of iterations each tally has count = length of
\* names and count <= the number of ingredients processed; so the total
\* concern count is at most three times that number, and a list on which the
\* bulk penalty applies (a total above 5) has at least 2 ingredients
C26_TallyBounds ==
  /\ \A t \in {"sugar", "preservatives", "artificial"} :
       /\ concerns[t].count = Len(concerns[t].names)
       /\ concerns[t].count <= Len(parsedIngredients)
  /\ TotalConcernCount <= 3 * Len(parsedIngredients)
  /\ pc = "done" /\ TotalConcernCount > 5 => Len(ingredients) >= 2

\* a list has been scored on which the bulk penalty applies
C26_Witness ==
  /\ pc = "done"
  /\ TotalConcernCount > 5
  /\ \E b \in 0..100 : IsRoundedAverage(b) /\ overallScore = b - 10

\* part of a list has been processed and the total concern count is above
\* the number of ingredients processed: one ingredient is in two tallies
C26_WitnessTwoTallies ==
  /\ pc = "loop"
  /\ Len(parsedIngredients) < Len(ingredients)
  /\ TotalConcernCount > Len(parsedIngredients)


(***************************************************************************)
(* Properties of the analysis pipeline                                     *)
(***************************************************************************)

CategorySet == {PRODUCT_CATEGORIES[i] : i \in 1..Len(PRODUCT_CATEGORIES)}

\* the latest analyzeWithProvider call got an object from its first, from its
\* second sendToProvider call
GotFirst == attempts # <<>> /\ ~passes.first.threw
GotSecond == GotFirst /\ passes.second # NoResponse /\ ~passes.second.threw

\* the first pass detected 'Supplement': the response says so, or it names no
\* listed category and its productType is 'supplement'
FirstPassSupplement ==
  /\ GotFirst
  /\ \/ passes.first.productCategory = "Supplement"
     \/ /\ passes.first.productCategory \notin CategorySet
        /\ passes.first.productType = "supplement"

\* C27: normalizeResult leaves productCategory one of the twelve
\* PRODUCT_CATEGORIES for whatever object it is given, and the object
\* analyzeWithProvider returns has productCategory 'Supplement' whenever the
\* first pass detected 'Supplement', whatever the second pass reports
C27_CategoryAnchor ==
  /\ GotFirst => normalizeResult(passes.first).productCategory \in CategorySet
  /\ GotSecond => normalizeResult(passes.second).productCategory \in CategorySet
  /\ callPc = "done" /\ FirstPassSupplement =>
       analysisResult.productCategory = "Supplement"


\* C28: a processed ingredient whose raw name is empty once trimmed (the
\* empty string, or white space only) is not found in the database and has
\* the classifier's default: score 70, concern low, category 'Ingredient'
C28_EmptyNameUnresolved ==
  \A i \in 1..Len(parsedIngredients) :
    trim(ingredients[i]) = <<>> =>
      /\ ~parsedIngredients[i].foundInDatabase
      /\ parsedIngredients[i].score = 70
      /\ parsedIngredients[i].concern = "low"
      /\ parsedIngredients[i].category = cat_Ingredient


\* the configured providers (those with a key of more than 10 characters) in
\* the order anthropic, gemini, openai
ConfiguredInPriorityOrder ==
  SelectSeq(<<"anthropic", "gemini", "openai">>, LAMBDA p : apiKeys[p] > 10)

\* the analyzeWithProvider calls analyzeIngredientLabel has made, in order
LoopAttempts == SelectSeq(attempts, LAMBDA a : a.via = "loop")

\* C29: the providers analyzeIngredientLabel has contacted are, in order, the
\* first ones of the configured providers in the order anthropic, gemini,
\* openai; every one but the latest failed; when the call has returned, the
\* latest one succeeded, the result is its result and nothing more is done;
\* when the call has thrown, either no provider is configured and none was
\* contacted, or every configured provider was contacted and failed and the
\* error is the last one's
C29_ProvidersInOrder ==
  LET expected == ConfiguredInPriorityOrder
      made == LoopAttempts
  IN  /\ Len(made) <= Len(expected)
      /\ \A k \in 1..Len(made) : made[k].provider = expected[k]
      /\ \A k \in 1..(Len(made) - 1) : made[k].failed
      /\ callPc = "loop" => \A k \in 1..Len(made) : made[k].failed
      /\ callPc = "done" /\ made # <<>> =>
           /\ ~made[Len(made)].failed
           /\ analysisResult.provider = made[Len(made)].provider
           /\ ~ENABLED NextAnalyze
      /\ callPc = "threw" =>
           IF expected = <<>>
           THEN attempts = <<>> /\ thrown = "No AI API keys configured"
           ELSE /\ Len(made) = Len(expected)
                /\ \A k \in 1..Len(made) : made[k].failed
                /\ thrown = expected[Len(expected)]
      /\ expected = <<>> => attempts = <<>> /\ callPc # "loop"

\* analyzeIngredientLabel was called with three providers configured:
\* anthropic and gemini failed, and openai's result has been returned
C29_Witness ==
  /\ entryPoint = "analyzeIngredientLabel"
  /\ callPc = "done"
  /\ Len(attempts) = 3
  /\ attempts[1].failed /\ attempts[2].failed
  /\ analysisResult.provider = "openai"

\* analyzeIngredientLabel was called with two providers configured, both
\* failed and the call has thrown
C29_WitnessAllFailed ==
  /\ entryPoint = "analyzeIngredientLabel"
  /\ callPc = "threw"
  /\ Len(attempts) = 2


\* analyzeWithPreferred was called with a preferred provider that is not
\* 'auto' and is configured
PreferredIsConfigured ==
  /\ entryPoint = "analyzeWithPreferred"
  /\ preferredProvider \in {"anthropic", "gemini", "openai"}
  /\ apiKeys[preferredProvider] > 10

\* C30: in an analyzeWithPreferred call with a configured preferred provider,
\* the first provider attempted is the preferred one; when it has failed and
\* the call has ended, a fallback attempt was made; and no provider is
\* attempted twice in the call
C30_EachProviderOnce ==
  PreferredIsConfigured =>
    /\ attempts # <<>> => attempts[1].provider = preferredProvider
    /\ callPc \in {"done", "threw"} => attempts # <<>>
    /\ callPc \in {"done", "threw"} /\ attempts[1].failed => Len(attempts) > 1
    /\ \A i, j \in 1..Len(attempts) : i < j => attempts[i].provider # attempts[j].provider

====
